---- MODULE Spec2Model ----
(***************************************************************************)
(* vigil-echo: the collect run (append a signal snapshot to the bounded    *)
(* history, analyse the history, persist both), the trend analyzer         *)
(* analyze::run and the sparkline renderer stats::sparkline.               *)
(*                                                                         *)
(* Numbers.  Signal values and thresholds are f64 in the source.  Here a   *)
(* value is an integer number of hundredths (0.80 is 80, 5.0 is 500), a     *)
(* mean is the exact fraction sum/n and a delta the exact fraction          *)
(* num/den, so that every comparison of the source is an integer            *)
(* comparison after cross-multiplication.  Option::None of an f64 is None.  *)
(* The series given to stats::streak and stats::percentile_rank lie on a    *)
(* grid of half the tolerance f64::EPSILON (the spacing of the f64 values   *)
(* in [0.5, 1)), so that differences below, at and above the tolerance      *)
(* occur.  A document is the sequence of its lines, a line the sequence of  *)
(* its characters.  A count of seconds since the epoch is the pair of its   *)
(* whole days and its remaining seconds (days * 86400 + rem), so that dates *)
(* past the year 9999 stay within the integers of the model checker.        *)
(***************************************************************************)
EXTENDS Integers, Sequences, FiniteSets, TLC

VARIABLES config, history, analysis, used, appended, collected,
          series, width, spark,
          value, streaked, ranked,
          doc, signal, listed,
          clock, cooldown_seconds, pulse_state, pulsed,
          procs, outcome,
          home, initialised,
          secs, stamped

vars == <<config, history, analysis, used, appended, collected, series, width, spark,
          value, streaked, ranked, doc, signal, listed,
          clock, cooldown_seconds, pulse_state, pulsed, procs, outcome,
          home, initialised, secs, stamped>>

analyzeVars == <<config, history, analysis, used, appended, collected>>
sparkVars == <<series, width, spark>>
statVars == <<value, streaked, ranked>>
docVars == <<doc, signal, listed>>
pulseVars == <<clock, cooldown_seconds, pulse_state, pulsed>>
runVars == <<procs, outcome>>
initVars == <<home, initialised>>
timeVars == <<secs, stamped>>
laterVars == <<pulseVars, runVars, initVars, timeVars>>

----------------------------------------------------------------------------
(* Bounds of the model *)

MaxRuns == 3
MaxSeries == 4
MaxWidth == 5
MaxLines == 4
MaxDay == 800
MaxPulses == 3
MaxFailingRuns == 2
MaxInits == 3

----------------------------------------------------------------------------
(* state.rs: the data model *)

None == -1

SIGNAL_NAMES ==
    <<"vocabulary_diversity", "question_generation", "thought_lifecycle", "evidence_grounding">>

Names == {SIGNAL_NAMES[i] : i \in 1..Len(SIGNAL_NAMES)}

ThresholdPair(d, i) == [decline |-> d, improve |-> i]

DefaultThresholds ==
    [n \in Names |->
        CASE n = "vocabulary_diversity" -> ThresholdPair(-5, 5)
          [] n = "evidence_grounding" -> ThresholdPair(-10, 10)
          [] n = "question_generation" -> ThresholdPair(-100, 100)
          [] n = "thought_lifecycle" -> ThresholdPair(-10, 10)]

Signals(vd, qg, tl, eg) ==
    [n \in Names |->
        CASE n = "vocabulary_diversity" -> vd
          [] n = "question_generation" -> qg
          [] n = "thought_lifecycle" -> tl
          [] n = "evidence_grounding" -> eg]

SignalVector(ts, sigs) == [timestamp |-> ts, signals |-> sigs]

NoAnalysis == [alert_level |-> "NoFile"]

----------------------------------------------------------------------------
(* helpers *)

Min(a, b) == IF a < b THEN a ELSE b

RECURSIVE SumSeq(_)
SumSeq(s) == IF Len(s) = 0 THEN 0 ELSE Head(s) + SumSeq(Tail(s))

Drop(s, k) == SubSeq(s, k + 1, Len(s))
Take(s, k) == SubSeq(s, 1, k)

RECURSIVE GCD(_, _)
GCD(a, b) == IF b = 0 THEN a ELSE GCD(b, a % b)

Abs(a) == IF a < 0 THEN -a ELSE a

(* the f64 value num/den (in hundredths) in lowest terms, den > 0 *)
Frac(num, den) ==
    LET g == GCD(Abs(num), den) IN [num |-> num \div g, den |-> den \div g]

Zero == Frac(0, 1)

(* a map with string keys: HashMap::insert *)
EmptyMap == [k \in {} |-> Zero]
Insert(m, k, v) == [x \in (DOMAIN m) \cup {k} |-> IF x = k THEN v ELSE m[x]]

----------------------------------------------------------------------------
(* analyze.rs *)

get_signal(sv, name) == sv.signals[name]

(* Option<f64> mean as the fraction sum/n; n = 0 is Option::None *)
NoMean == [sum |-> 0, n |-> 0]

mean(values) ==
    LET valid == SelectSeq(values, LAMBDA v : v # None)
    IN  IF Len(valid) = 0 THEN NoMean ELSE [sum |-> SumSeq(valid), n |-> Len(valid)]

(* config.thresholds.get(name).cloned().unwrap_or(ThresholdPair {-0.05, 0.05}) *)
threshold_for(cfg, name) ==
    IF name \in DOMAIN cfg.thresholds THEN cfg.thresholds[name] ELSE ThresholdPair(-5, 5)

(* d < threshold.decline, d > threshold.improve, for d = num/den and den > 0 *)
classify(d, threshold) ==
    IF d.num < threshold.decline * d.den THEN "Declining"
    ELSE IF d.num > threshold.improve * d.den THEN "Improving"
    ELSE "Stable"

(* values.len() < 3 *)
too_few(values) == Len(values) < 3

last_value_is_first(values) == IF Len(values) = 0 THEN None ELSE values[1]

last_value(values) == IF Len(values) = 0 THEN None ELSE values[Len(values)]

(* the match on (recent_mean, baseline_mean): the pair (trend, delta) *)
trend_delta(values, cfg, name) ==
    LET recent_start == Len(values) - 3
        recent == Drop(values, recent_start)
        baseline == Take(values, recent_start)
        recent_mean == mean(recent)
        baseline_mean == IF Len(baseline) = 0 THEN recent_mean ELSE mean(baseline)
    IN  IF recent_mean.n > 0 /\ baseline_mean.n > 0
        THEN LET d == Frac(recent_mean.sum * baseline_mean.n - baseline_mean.sum * recent_mean.n,
                           recent_mean.n * baseline_mean.n)
             IN  [trend |-> classify(d, threshold_for(cfg, name)), delta |-> d]
        ELSE [trend |-> "Stable", delta |-> Zero]

(* the arguments decline_message formats its text from *)
decline_message(name, current, delta) == [signal |-> name, val |-> current, delta |-> delta]

(* best_delta.as_ref().is_none_or(|(_, bd)| delta > *bd); an Option is a
   sequence of at most one element *)
better_or_equal(best_delta, delta) ==
    \/ Len(best_delta) = 0
    \/ delta.num * best_delta[1].delta.den >= best_delta[1].delta.num * delta.den

better(best_delta, delta) ==
    \/ Len(best_delta) = 0
    \/ delta.num * best_delta[1].delta.den > best_delta[1].delta.num * delta.den

(* one iteration of the loop over SIGNAL_NAMES *)
signal_step_uncounted(acc, name, data, cfg) ==
    LET values == [i \in 1..Len(data) |-> get_signal(data[i], name)]
        current == last_value(values)
    IN  IF too_few(values)
        THEN IF current # None
             THEN [acc EXCEPT
                     !.signal_trends = Insert(@, name,
                         [current |-> current, trend |-> "Stable", delta |-> Zero])]
             ELSE acc
        ELSE LET td == trend_delta(values, cfg, name)
                 counted ==
                     CASE td.trend = "Improving" ->
                            [acc EXCEPT !.improving = @ + 1,
                                        !.best_delta = IF better(@, td.delta)
                                                       THEN <<[name |-> name, delta |-> td.delta]>>
                                                       ELSE @]
                       [] td.trend = "Declining" ->
                            [acc EXCEPT !.declining = @ + 1,
                                        !.watch_messages =
                                            Append(@, decline_message(name, current, td.delta))]
                       [] td.trend = "Stable" -> [acc EXCEPT !.stable = @ + 1]
             IN  [counted EXCEPT
                     !.signal_trends = Insert(@, name,
                         [current |-> current, trend |-> td.trend, delta |-> td.delta])]

signal_step(acc, name, data, cfg) ==
    LET values == [i \in 1..Len(data) |-> get_signal(data[i], name)]
        current == last_value(values)
    IN  IF too_few(values)
        THEN IF current # None
             THEN [acc EXCEPT
                     !.signal_trends = Insert(@, name,
                         [current |-> current, trend |-> "Stable", delta |-> Zero]),
                     !.stable = @ + 1]
             ELSE acc
        ELSE LET td == trend_delta(values, cfg, name)
                 counted ==
                     CASE td.trend = "Improving" ->
                            [acc EXCEPT !.improving = @ + 1,
                                        !.best_delta = IF better(@, td.delta)
                                                       THEN <<[name |-> name, delta |-> td.delta]>>
                                                       ELSE @]
                       [] td.trend = "Declining" ->
                            [acc EXCEPT !.declining = @ + 1,
                                        !.watch_messages =
                                            Append(@, decline_message(name, current, td.delta))]
                       [] td.trend = "Stable" -> [acc EXCEPT !.stable = @ + 1]
             IN  [counted EXCEPT
                     !.signal_trends = Insert(@, name,
                         [current |-> current, trend |-> td.trend, delta |-> td.delta])]

RECURSIVE signal_loop(_, _, _)
signal_loop(k, data, cfg) ==
    IF k = 0
    THEN [signal_trends |-> EmptyMap, improving |-> 0, stable |-> 0, declining |-> 0,
          watch_messages |-> <<>>, best_delta |-> <<>>]
    ELSE signal_step(signal_loop(k - 1, data, cfg), SIGNAL_NAMES[k], data, cfg)

base_alert_level_concern_at_two(declining) ==
    IF declining >= 2 THEN "Concern"
    ELSE IF declining >= 1 THEN "Watch"
    ELSE "Healthy"

base_alert_level(declining) ==
    IF declining >= 3 THEN "Concern"
    ELSE IF declining >= 1 THEN "Watch"
    ELSE "Healthy"

(* matches!((first_half, second_half), (Some(f), Some(s)) if s < f - 0.1) *)
half_decline(first_half, second_half) ==
    /\ first_half.n > 0
    /\ second_half.n > 0
    /\ second_half.sum * first_half.n
          < first_half.sum * second_half.n - 10 * second_half.n * first_half.n

(* the closure passed to SIGNAL_NAMES.iter().any *)
sustained_for(name, old_data) ==
    LET vals == [i \in 1..Len(old_data) |-> get_signal(old_data[i], name)]
    IN  IF Len(vals) < 4
        THEN FALSE
        ELSE half_decline(mean(Take(vals, Len(vals) \div 2)),
                          mean(Drop(vals, Len(vals) \div 2)))

sustained(hist, cfg) ==
    LET lookback == Min(cfg.alert_after_sessions, Len(hist))
        old_data == Drop(hist, Len(hist) - lookback)
    IN  \E i \in 1..Len(SIGNAL_NAMES) : sustained_for(SIGNAL_NAMES[i], old_data)

escalate_from_watch(alert_level, hist, cfg) ==
    IF alert_level # "Healthy" /\ Len(hist) >= cfg.alert_after_sessions
    THEN IF sustained(hist, cfg) THEN "Alert" ELSE alert_level
    ELSE alert_level

escalate(alert_level, hist, cfg) ==
    IF alert_level = "Concern" /\ Len(hist) >= cfg.alert_after_sessions
    THEN IF sustained(hist, cfg) THEN "Alert" ELSE "Concern"
    ELSE alert_level

(* analyze::friendly_name *)
friendly_name(name) ==
    CASE name = "vocabulary_diversity" -> "vocabulary diversity"
      [] name = "question_generation" -> "question generation"
      [] name = "thought_lifecycle" -> "thought lifecycle"
      [] name = "evidence_grounding" -> "evidence grounding"
      [] OTHER -> name

(* best_delta.map(|(name, delta)| format!(...)): the friendly name and the
   delta the text of the highlight is formatted from *)
highlight_of(best_delta) ==
    IF Len(best_delta) = 0
    THEN <<>>
    ELSE <<[name |-> friendly_name(best_delta[1].name), delta |-> best_delta[1].delta]>>

(* analyze::run(history, config), stamped with the time now *)
run_over_whole_history(hist, cfg, now) ==
    LET data == hist
        acc == signal_loop(Len(SIGNAL_NAMES), data, cfg)
    IN  [timestamp |-> now,
         alert_level |-> escalate(base_alert_level(acc.declining), hist, cfg),
         signals |-> acc.signal_trends,
         improving_count |-> acc.improving,
         stable_count |-> acc.stable,
         declining_count |-> acc.declining,
         highlight |-> highlight_of(acc.best_delta),
         watch_messages |-> acc.watch_messages,
         data_points |-> Len(hist)]

run(hist, cfg, now) ==
    LET window == Min(cfg.window_size, Len(hist))
        data == Drop(hist, Len(hist) - window)
        acc == signal_loop(Len(SIGNAL_NAMES), data, cfg)
    IN  [timestamp |-> now,
         alert_level |-> escalate(base_alert_level(acc.declining), hist, cfg),
         signals |-> acc.signal_trends,
         improving_count |-> acc.improving,
         stable_count |-> acc.stable,
         declining_count |-> acc.declining,
         highlight |-> highlight_of(acc.best_delta),
         watch_messages |-> acc.watch_messages,
         data_points |-> Len(hist)]

----------------------------------------------------------------------------
(* stats.rs *)

BLOCKS == <<"U+2581", "U+2582", "U+2583", "U+2584", "U+2585", "U+2586", "U+2587", "U+2588">>

RECURSIVE fold_min(_)
fold_min(s) ==
    IF Len(s) = 1 THEN s[1]
    ELSE LET m == fold_min(Tail(s)) IN IF s[1] < m THEN s[1] ELSE m

RECURSIVE fold_max(_)
fold_max(s) ==
    IF Len(s) = 1 THEN s[1]
    ELSE LET m == fold_max(Tail(s)) IN IF s[1] > m THEN s[1] ELSE m

(* the usize division i * (values.len() - 1) / (width - 1) aborts the
   program when width - 1 is 0 *)
sample_panics(values, w) == Len(values) > w /\ w - 1 = 0

sampled_of(values, w) ==
    IF Len(values) > w
    THEN [i \in 1..w |-> values[((i - 1) * (Len(values) - 1)) \div (w - 1) + 1]]
    ELSE values

(* ((v - min) / range * 7.0).round() as usize, then .min(7); v >= min and
   range > 0, so round is floor(x + 1/2) *)
quantize(v, min, range) ==
    LET normalized == (14 * (v - min) + range) \div (2 * range)
    IN  Min(normalized, 7)

(* stats::sparkline: the glyphs of the returned String, or the abort *)
sparkline(values, w) ==
    IF Len(values) = 0 \/ w = 0
    THEN [panicked |-> FALSE, out |-> <<>>]
    ELSE IF sample_panics(values, w)
    THEN [panicked |-> TRUE, out |-> <<>>]
    ELSE LET sampled == sampled_of(values, w)
             min == fold_min(sampled)
             max == fold_max(sampled)
             range == max - min
         IN  [panicked |-> FALSE,
              out |-> [i \in 1..Len(sampled) |->
                          IF range = 0 THEN BLOCKS[4]
                          ELSE BLOCKS[quantize(sampled[i], min, range) + 1]]]

(* f64::EPSILON, in units of half of it *)
EPSILON == 2

(* the loop of the flat branch: i runs from values.len() - 1 down to 1 here
   (from values.len() - 2 down to 0 in the source) and compares values[i]
   with values[i + 1] *)
RECURSIVE flat_run(_, _)
flat_run(values, i) ==
    IF i < 1 THEN 0
    ELSE IF Abs(values[i] - values[i + 1]) < EPSILON
         THEN 1 + flat_run(values, i - 1)
         ELSE 0

(* the loop of the up and down branches: j runs from values.len() - 1 down
   to 2 here (from values.len() - 2 down to 1 in the source) and looks at
   d = values[j] - values[j - 1] *)
RECURSIVE dir_run(_, _, _)
dir_run(values, direction, j) ==
    IF j < 2 THEN 0
    ELSE LET d == values[j] - values[j - 1]
             matches == IF direction = 1 THEN d > EPSILON ELSE d < -EPSILON
         IN  IF matches THEN 1 + dir_run(values, direction, j - 1) ELSE 0

(* stats::streak: the pair (direction, count) *)
streak_without_last_step(values) ==
    IF Len(values) < 2
    THEN [direction |-> 0, count |-> 0]
    ELSE LET last == values[Len(values)]
             prev == values[Len(values) - 1]
             direction == IF last > prev + EPSILON THEN 1
                          ELSE IF last < prev - EPSILON THEN -1
                          ELSE 0
         IN  IF direction = 0
             THEN [direction |-> 0, count |-> 1 + flat_run(values, Len(values) - 1)]
             ELSE [direction |-> direction,
                   count |-> dir_run(values, direction, Len(values) - 1)]

streak(values) ==
    IF Len(values) < 2
    THEN [direction |-> 0, count |-> 0]
    ELSE LET last == values[Len(values)]
             prev == values[Len(values) - 1]
             direction == IF last > prev + EPSILON THEN 1
                          ELSE IF last < prev - EPSILON THEN -1
                          ELSE 0
         IN  IF direction = 0
             THEN [direction |-> 0, count |-> 1 + flat_run(values, Len(values) - 1)]
             ELSE [direction |-> direction,
                   count |-> 1 + dir_run(values, direction, Len(values) - 1)]

(* stats::percentile_rank: the rank as the exact fraction num/den *)
percentile_rank(v, values) ==
    IF Len(values) = 0
    THEN Frac(50, 1)
    ELSE LET below == Len(SelectSeq(values, LAMBDA x : x < v))
             equal == Len(SelectSeq(values, LAMBDA x : Abs(x - v) < EPSILON))
         IN  Frac(100 * (2 * below + equal), 2 * Len(values))

----------------------------------------------------------------------------
(* str: a string is the sequence of its characters *)

UPPERCASE == <<"A", "B", "C", "D", "E", "F", "G", "H", "I", "J", "K", "L", "M", "N", "O", "P", "Q", "R", "S", "T", "U", "V", "W", "X", "Y", "Z">>
LOWERCASE == <<"a", "b", "c", "d", "e", "f", "g", "h", "i", "j", "k", "l", "m", "n", "o", "p", "q", "r", "s", "t", "u", "v", "w", "x", "y", "z">>
DIGITS == <<"0", "1", "2", "3", "4", "5", "6", "7", "8", "9">>
WHITESPACE == {" ", "\t", "\n", "\r"}

to_lowercase_char(c) ==
    IF \E i \in 1..Len(UPPERCASE) : UPPERCASE[i] = c
    THEN LOWERCASE[CHOOSE i \in 1..Len(UPPERCASE) : UPPERCASE[i] = c]
    ELSE c

(* str::to_lowercase, on ASCII text *)
to_lowercase(s) == [i \in 1..Len(s) |-> to_lowercase_char(s[i])]

(* str::eq_ignore_ascii_case *)
eq_ignore_ascii_case(a, b) == to_lowercase(a) = to_lowercase(b)

(* char::is_ascii_digit *)
is_ascii_digit(c) == \E i \in 1..Len(DIGITS) : DIGITS[i] = c

(* str::starts_with *)
starts_with(s, prefix) ==
    Len(s) >= Len(prefix) /\ SubSeq(s, 1, Len(prefix)) = prefix

(* str::contains *)
contains(s, pattern) ==
    \E i \in 0..(Len(s) - Len(pattern)) : SubSeq(s, i + 1, i + Len(pattern)) = pattern

(* str::trim_start_matches: the prefix is removed as often as it occurs *)
RECURSIVE trim_start_matches(_, _)
trim_start_matches(s, prefix) ==
    IF Len(prefix) > 0 /\ starts_with(s, prefix)
    THEN trim_start_matches(SubSeq(s, Len(prefix) + 1, Len(s)), prefix)
    ELSE s

RECURSIVE trim_start(_)
trim_start(s) ==
    IF Len(s) > 0 /\ s[1] \in WHITESPACE THEN trim_start(Tail(s)) ELSE s

RECURSIVE trim_end(_)
trim_end(s) ==
    IF Len(s) > 0 /\ s[Len(s)] \in WHITESPACE
    THEN trim_end(SubSeq(s, 1, Len(s) - 1))
    ELSE s

(* str::trim *)
str_trim(s) == trim_end(trim_start(s))

(* a line ends at "\n"; a "\r" before that "\n" is not part of the line *)
strip_cr(line) ==
    IF Len(line) > 0 /\ line[Len(line)] = "\r"
    THEN SubSeq(line, 1, Len(line) - 1)
    ELSE line

RECURSIVE split_lines(_, _, _, _)
split_lines(content, i, current, acc) ==
    IF i > Len(content)
    THEN IF current = <<>> THEN acc ELSE Append(acc, current)
    ELSE IF content[i] = "\n"
         THEN split_lines(content, i + 1, <<>>, Append(acc, strip_cr(current)))
         ELSE split_lines(content, i + 1, Append(current, content[i]), acc)

(* str::lines *)
lines(content) == split_lines(content, 1, <<>>, <<>>)

----------------------------------------------------------------------------
(* parser.rs *)

H2 == <<"#", "#", " ">>
H3 == <<"#", "#", "#", " ">>

(* one iteration of the loop of count_h3_under_section over the lines:
   st is the pair of the locals in_section and count *)
count_h3_step(st, line, section_name) ==
    IF starts_with(line, H2)
    THEN LET heading == str_trim(trim_start_matches(line, H2))
         IN  [st EXCEPT !.in_section =
                 \/ eq_ignore_ascii_case(heading, section_name)
                 \/ contains(to_lowercase(heading), to_lowercase(section_name))]
    ELSE IF st.in_section /\ starts_with(line, H3)
         THEN [st EXCEPT !.count = @ + 1]
         ELSE st

RECURSIVE count_h3_loop(_, _, _)
count_h3_loop(ls, k, section_name) ==
    IF k = 0 THEN [in_section |-> FALSE, count |-> 0]
    ELSE count_h3_step(count_h3_loop(ls, k - 1, section_name), ls[k], section_name)

(* parser::count_h3_under_section *)
count_h3_under_section(content, section_name) ==
    count_h3_loop(lines(content), Len(lines(content)), section_name).count

(* if let Some(title) = current_title.take() { entries.push((title, take(body))) } *)
flush(st) ==
    IF Len(st.current_title) > 0
    THEN [st EXCEPT !.entries = Append(@, [title |-> st.current_title[1],
                                            body |-> st.current_body]),
                    !.current_title = <<>>,
                    !.current_body = <<>>]
    ELSE st

(* one iteration of the loop of extract_entries; current_title is an Option,
   a sequence of at most one element *)
extract_entries_step_no_flush(st, line, section_names) ==
    IF starts_with(line, H2)
    THEN LET heading == to_lowercase(str_trim(trim_start_matches(line, H2)))
         IN  [st EXCEPT !.in_section =
                 \E i \in 1..Len(section_names) :
                     contains(heading, to_lowercase(section_names[i]))]
    ELSE IF st.in_section /\ starts_with(line, H3)
         THEN [flush(st) EXCEPT !.current_title = <<str_trim(trim_start_matches(line, H3))>>,
                                !.current_body = <<>>]
         ELSE IF Len(st.current_title) > 0 /\ st.in_section /\ str_trim(line) # <<>>
              THEN [st EXCEPT !.current_body = @ \o line \o <<" ">>]
              ELSE st

extract_entries_step(st, line, section_names) ==
    IF starts_with(line, H2)
    THEN LET heading == to_lowercase(str_trim(trim_start_matches(line, H2)))
         IN  [flush(st) EXCEPT !.in_section =
                 \E i \in 1..Len(section_names) :
                     contains(heading, to_lowercase(section_names[i]))]
    ELSE IF st.in_section /\ starts_with(line, H3)
         THEN [flush(st) EXCEPT !.current_title = <<str_trim(trim_start_matches(line, H3))>>,
                                !.current_body = <<>>]
         ELSE IF Len(st.current_title) > 0 /\ st.in_section /\ str_trim(line) # <<>>
              THEN [st EXCEPT !.current_body = @ \o line \o <<" ">>]
              ELSE st

RECURSIVE extract_entries_loop(_, _, _)
extract_entries_loop(ls, k, section_names) ==
    IF k = 0
    THEN [in_section |-> FALSE, entries |-> <<>>, current_title |-> <<>>, current_body |-> <<>>]
    ELSE extract_entries_step(extract_entries_loop(ls, k - 1, section_names), ls[k], section_names)

(* parser::extract_entries: the sequence of the (title, body) pairs *)
extract_entries(content, section_names) ==
    flush(extract_entries_loop(lines(content), Len(lines(content)), section_names)).entries

----------------------------------------------------------------------------
(* signals.rs *)

OPEN_QUESTIONS == <<"O", "p", "e", "n", " ", "Q", "u", "e", "s", "t", "i", "o", "n", "s">>
OPEN == <<"O", "p", "e", "n">>
ACTIVE == <<"A", "c", "t", "i", "v", "e">>
GRADUATED == <<"G", "r", "a", "d", "u", "a", "t", "e", "d">>
DISSOLVED == <<"D", "i", "s", "s", "o", "l", "v", "e", "d">>

(* an Option<f64> is a sequence of at most one fraction num/den *)
Absent == <<>>
Present(num, den) == <<Frac(num, den)>>

(* signals::question_generation: the result and the local count *)
question_generation_absent_at_zero(curiosity_content) ==
    IF curiosity_content = <<>>
    THEN [value |-> Absent, counts |-> <<>>]
    ELSE LET open == count_h3_under_section(curiosity_content, OPEN_QUESTIONS)
             count == IF open > 0
                      THEN open
                      ELSE count_h3_under_section(curiosity_content, OPEN)
         IN  [value |-> IF count = 0 THEN Absent ELSE Present(count, 1), counts |-> <<count>>]

question_generation(curiosity_content) ==
    IF curiosity_content = <<>>
    THEN [value |-> Absent, counts |-> <<>>]
    ELSE LET open == count_h3_under_section(curiosity_content, OPEN_QUESTIONS)
             count == IF open > 0
                      THEN open
                      ELSE count_h3_under_section(curiosity_content, OPEN)
         IN  [value |-> Present(count, 1), counts |-> <<count>>]

(* signals::thought_lifecycle: the result and the locals active, graduated
   and dissolved *)
thought_lifecycle_of_graduated(thoughts_content) ==
    IF thoughts_content = <<>>
    THEN [value |-> Absent, counts |-> <<>>]
    ELSE LET active == count_h3_under_section(thoughts_content, ACTIVE)
             graduated == count_h3_under_section(thoughts_content, GRADUATED)
             dissolved == count_h3_under_section(thoughts_content, DISSOLVED)
             total == active + graduated + dissolved
         IN  [value |-> IF total = 0 THEN Absent ELSE Present(graduated, total),
              counts |-> <<active, graduated, dissolved>>]

thought_lifecycle(thoughts_content) ==
    IF thoughts_content = <<>>
    THEN [value |-> Absent, counts |-> <<>>]
    ELSE LET active == count_h3_under_section(thoughts_content, ACTIVE)
             graduated == count_h3_under_section(thoughts_content, GRADUATED)
             dissolved == count_h3_under_section(thoughts_content, DISSOLVED)
             total == active + graduated + dissolved
         IN  [value |-> IF total = 0 THEN Absent ELSE Present(graduated + dissolved, total),
              counts |-> <<active, graduated, dissolved>>]

(* signals::has_date_pattern: i is the 0-based index of the source plus 1 *)
has_date_pattern(text) ==
    \E i \in 1..Len(text) :
        /\ is_ascii_digit(text[i])
        /\ i + 9 <= Len(text)
        /\ LET slice == SubSeq(text, i, i + 9)
           IN  /\ Len(slice) = 10
               /\ slice[5] = "-"
               /\ slice[8] = "-"
               /\ \A j \in 1..4 : is_ascii_digit(slice[j])
               /\ \A j \in 6..7 : is_ascii_digit(slice[j])
               /\ \A j \in 9..10 : is_ascii_digit(slice[j])

attribution ==
    <<<<"d", " ", "s", "a", "i", "d">>,
      <<"d", " ", "a", "s", "k", "e", "d">>,
      <<"d", " ", "m", "e", "n", "t", "i", "o", "n", "e", "d">>,
      <<"d", " ", "t", "o", "l", "d">>,
      <<"d", " ", "p", "o", "i", "n", "t", "e", "d">>,
      <<"d", " ", "c", "a", "l", "l", "e", "d">>,
      <<"d", " ", "s", "u", "g", "g", "e", "s", "t", "e", "d">>>>

research ==
    <<<<"p", "a", "p", "e", "r">>,
      <<"r", "e", "s", "e", "a", "r", "c", "h">>,
      <<"f", "o", "u", "n", "d", " ", "t", "h", "a", "t">>,
      <<"a", "c", "c", "o", "r", "d", "i", "n", "g", " ", "t", "o">>,
      <<"s", "t", "u", "d", "y">>,
      <<"f", "r", "a", "m", "e", "w", "o", "r", "k">>,
      <<"m", "a", "z", "a", "n", "c", "i", "e", "u", "x">>,
      <<"r", "e", "f", "l", "e", "x", "i", "o", "n">>,
      <<"l", "i", "n", "d", "s", "e", "y">>,
      <<"f", "o", "u", "c", "a", "u", "l", "t">>,
      <<"a", "r", "i", "s", "t", "o", "t", "l", "e">>>>

events ==
    <<<<"s", "e", "s", "s", "i", "o", "n">>,
      <<"c", "o", "n", "v", "e", "r", "s", "a", "t", "i", "o", "n">>,
      <<"c", "a", "l", "l", " ", "w", "i", "t", "h">>,
      <<"d", "u", "r", "i", "n", "g", " ", "t", "h", "e">>,
      <<"y", "e", "s", "t", "e", "r", "d", "a", "y">>,
      <<"t", "h", "i", "s", " ", "m", "o", "r", "n", "i", "n", "g">>,
      <<"l", "a", "s", "t", " ", "n", "i", "g", "h", "t">>>>

any_contained(lower, patterns) ==
    \E i \in 1..Len(patterns) : contains(lower, patterns[i])

(* signals::has_evidence *)
has_evidence_dates_only(text) ==
    has_date_pattern(text)

has_evidence(text) ==
    LET lower == to_lowercase(text)
    IN  \/ has_date_pattern(text)
        \/ any_contained(lower, attribution)
        \/ any_contained(lower, research)
        \/ any_contained(lower, events)

REFLECTION_SECTIONS ==
    <<<<"o", "b", "s", "e", "r", "v", "a", "t", "i", "o", "n", "s">>,
      <<"p", "a", "t", "t", "e", "r", "n", "s">>,
      <<"l", "e", "s", "s", "o", "n", "s">>>>

(* signals::evidence_grounding: the result and the pair (grounded,
   entries.len()) *)
evidence_grounding(reflections_content) ==
    IF reflections_content = <<>>
    THEN [value |-> Absent, counts |-> <<>>]
    ELSE LET entries == extract_entries(reflections_content, REFLECTION_SECTIONS)
             grounded == Len(SelectSeq(entries, LAMBDA e : has_evidence(e.body)))
         IN  IF Len(entries) = 0
             THEN [value |-> Absent, counts |-> <<0, 0>>]
             ELSE [value |-> Present(grounded, Len(entries)),
                   counts |-> <<grounded, Len(entries)>>]

----------------------------------------------------------------------------
(* state.rs: the timestamp helpers *)

(* a u64 count of seconds: days * 86400 + rem with rem < 86400 *)
Seconds(days, rem) == [days |-> days + rem \div 86400, rem |-> rem % 86400]

(* the decimal digits of n, most significant first *)
RECURSIVE digits_of(_)
digits_of(n) ==
    IF n < 10 THEN <<DIGITS[n + 1]>> ELSE Append(digits_of(n \div 10), DIGITS[(n % 10) + 1])

(* format!("{:0w$}", n): at least w digits, padded with zeros on the left *)
RECURSIVE zero_padded(_, _)
zero_padded(digits, w) ==
    IF Len(digits) >= w THEN digits ELSE zero_padded(<<"0">> \o digits, w)

pad(n, w) == zero_padded(digits_of(n), w)

digit_value(c) == (CHOOSE i \in 1..Len(DIGITS) : DIGITS[i] = c) - 1

RECURSIVE digits_value(_)
digits_value(ds) ==
    IF Len(ds) = 0 THEN 0
    ELSE 10 * digits_value(SubSeq(ds, 1, Len(ds) - 1)) + digit_value(ds[Len(ds)])

(* str::parse::<u64>().ok(): an optional "+" and at least one digit; an
   Option is a sequence of at most one element *)
parse_u64(text) ==
    LET ds == IF Len(text) > 0 /\ text[1] = "+" THEN Tail(text) ELSE text
    IN  IF Len(ds) > 0 /\ \A i \in 1..Len(ds) : is_ascii_digit(ds[i])
        THEN <<digits_value(ds)>>
        ELSE <<>>

(* state::days_to_date: the triple (year, month, day) *)
days_to_date(days_since_epoch) ==
    LET z == days_since_epoch + 719468
        era == z \div 146097
        doe == z - era * 146097
        yoe == (doe - doe \div 1460 + doe \div 36524 - doe \div 146096) \div 365
        y == yoe + era * 400
        doy == doe - (365 * yoe + yoe \div 4 - yoe \div 100)
        mp == (5 * doy + 2) \div 153
        d == doy - (153 * mp + 2) \div 5 + 1
        m == IF mp < 10 THEN mp + 3 ELSE mp - 9
        year == IF m <= 2 THEN y + 1 ELSE y
    IN  [year |-> year, month |-> m, day |-> d]

(* state::date_to_days, in the integers *)
date_to_days(year, month, day) ==
    LET y == IF month <= 2 THEN year - 1 ELSE year
        m == IF month <= 2 THEN month + 9 ELSE month - 3
        era == y \div 400
        yoe == y - era * 400
        doy == (153 * m + 2) \div 5 + day - 1
        doe == yoe * 365 + yoe \div 4 - yoe \div 100 + doy
    IN  era * 146097 + doe - 719468

(* a u64 subtraction of date_to_days goes below zero: year - 1 for the
   year 0, or the final - 719468 for a date before 1970 *)
date_to_days_underflows(year, month, day) ==
    \/ month <= 2 /\ year = 0
    \/ date_to_days(year, month, day) < 0

(* state::now_iso for the clock reading secs *)
now_iso(s) ==
    LET days == s.days
        time_secs == s.rem
        hours == time_secs \div 3600
        minutes == (time_secs % 3600) \div 60
        seconds == time_secs % 60
        date == days_to_date(days)
    IN  pad(date.year, 4) \o <<"-">> \o pad(date.month, 2) \o <<"-">> \o pad(date.day, 2)
            \o <<"T">> \o pad(hours, 2) \o <<":">> \o pad(minutes, 2) \o <<":">>
            \o pad(seconds, 2) \o <<"Z">>

(* state::parse_iso_epoch: None, Some(seconds), or the arithmetic overflow
   of date_to_days (an abort in a build with overflow checks, a wrapped
   value in one without) *)
parse_iso_epoch(ts) ==
    IF Len(ts) < 19
    THEN [kind |-> "None"]
    ELSE LET year == parse_u64(SubSeq(ts, 1, 4))
             month == parse_u64(SubSeq(ts, 6, 7))
             day == parse_u64(SubSeq(ts, 9, 10))
             hours == parse_u64(SubSeq(ts, 12, 13))
             minutes == parse_u64(SubSeq(ts, 15, 16))
             seconds == parse_u64(SubSeq(ts, 18, 19))
         IN  IF \E f \in {year, month, day, hours, minutes, seconds} : f = <<>>
             THEN [kind |-> "None"]
             ELSE IF date_to_days_underflows(year[1], month[1], day[1])
             THEN [kind |-> "Overflow"]
             ELSE [kind |-> "Some",
                   secs |-> Seconds(date_to_days(year[1], month[1], day[1]),
                                    hours[1] * 3600 + minutes[1] * 60 + seconds[1])]

----------------------------------------------------------------------------
(* pulse.rs *)

(* b - a in seconds, for two counts of seconds *)
seconds_between(a, b) == (b.days - a.days) * 86400 + (b.rem - a.rem)

(* u64::saturating_sub *)
saturating_sub(now, last_epoch) ==
    IF seconds_between(last_epoch, now) < 0 THEN 0 ELSE seconds_between(last_epoch, now)

(* the cooldown check of pulse::run, for a parsed last pulse *)
in_cooldown(now, last_epoch, cooldown) ==
    saturating_sub(now, last_epoch) < cooldown

(* pulse::run on the pulse state file ps and the analysis file an, with the
   clock reading now at the cooldown check and later at the stamp; fail names
   the call that fails.  Gives the result, what was printed and the file
   after. *)
pulse_run(ps, cooldown, an, now, later, fail) ==
    LET parsed == IF ps.last_pulse = <<>> THEN [kind |-> "None"]
                  ELSE parse_iso_epoch(ps.last_pulse[1])
        stampedState == [readable |-> TRUE, last_pulse |-> <<now_iso(later)>>]
    IN  IF fail = "load_config" \/ fail = "load_pulse_state" \/ ~ps.readable
        THEN [kind |-> "error", printed |-> "nothing", pulse_state |-> ps]
        ELSE IF parsed.kind = "Overflow"
        THEN [kind |-> "overflow", printed |-> "nothing", pulse_state |-> ps]
        ELSE IF parsed.kind = "Some" /\ in_cooldown(now, parsed.secs, cooldown)
        THEN [kind |-> "suppressed", printed |-> "nothing", pulse_state |-> ps]
        ELSE IF fail = "save_pulse_state"
        THEN [kind |-> "error", printed |-> "nothing", pulse_state |-> ps]
        ELSE IF fail = "save_pulse_state torn"
        THEN [kind |-> "error", printed |-> "nothing",
              pulse_state |-> [readable |-> FALSE, last_pulse |-> <<>>]]
        ELSE IF fail = "load_analysis"
        THEN [kind |-> "stamped_error", printed |-> "nothing", pulse_state |-> stampedState]
        ELSE [kind |-> "passed",
              printed |-> IF an = NoAnalysis THEN "no data yet" ELSE "assessment",
              pulse_state |-> stampedState]

----------------------------------------------------------------------------
(* init.rs.  settings.json is missing, unparsable, a JSON value that is no
   object, or an object; of an object the model keeps, for each of the two
   events, the commands of its hook entries in order. *)

(* "vigil-echo pulse" *)
PULSE_COMMAND == <<"v", "i", "g", "i", "l", "-", "e", "c", "h", "o", " ", "p", "u", "l", "s", "e">>

(* "vigil-echo collect --trigger session-end" *)
COLLECT_COMMAND ==
    <<"v", "i", "g", "i", "l", "-", "e", "c", "h", "o", " ", "c", "o", "l", "l", "e", "c", "t", " ", "-", "-", "t", "r", "i", "g", "g", "e", "r", " ", "s", "e", "s", "s", "i", "o", "n", "-", "e", "n", "d">>

Settings(kind, pre_tool_use, session_end) ==
    [kind |-> kind, PreToolUse |-> pre_tool_use, SessionEnd |-> session_end]

(* init::hook_has_command *)
hook_has_command(settings, event, needle) ==
    /\ settings.kind = "Object"
    /\ \E i \in 1..Len(settings[event]) : contains(settings[event][i], needle)

(* init::add_hook_entry on an object *)
add_hook_entry(settings, event, command) ==
    [settings EXCEPT ![event] = Append(settings[event], command)]

(* init::write_if_not_exists: the content of the file after; a failed write
   leaves the file missing *)
write_if_not_exists(file, content, fails) ==
    IF file # "missing" THEN file
    ELSE IF fails THEN "missing"
    ELSE content

(* init::merge_hooks: the settings after, and whether the unwrap of
   add_hook_entry panics *)
merge_hooks(settings, fails) ==
    IF settings.kind = "Unparsable"
    THEN [panicked |-> FALSE, settings |-> settings]
    ELSE LET loaded == IF settings.kind = "Missing" THEN Settings("Object", <<>>, <<>>)
                       ELSE settings
             has_pulse == hook_has_command(loaded, "PreToolUse", PULSE_COMMAND)
             has_collect == hook_has_command(loaded, "SessionEnd", COLLECT_COMMAND)
             with_pulse == IF has_pulse THEN loaded
                           ELSE add_hook_entry(loaded, "PreToolUse", PULSE_COMMAND)
             with_collect == IF has_collect THEN with_pulse
                             ELSE add_hook_entry(with_pulse, "SessionEnd", COLLECT_COMMAND)
             changed == ~has_pulse \/ ~has_collect
         IN  IF loaded.kind = "NotObject"
             THEN [panicked |-> TRUE, settings |-> settings]
             ELSE IF changed /\ ~fails
             THEN [panicked |-> FALSE, settings |-> with_collect]
             ELSE [panicked |-> FALSE, settings |-> settings]

(* init::run on the home directory h; fail names the write that fails *)
init_run(h, fail) ==
    IF ~h.claude_dir
    THEN [result |-> "Err", home |-> h]
    ELSE LET merged == merge_hooks(h.settings, fail = "write_settings")
             after == [claude_dir |-> TRUE,
                       config_file |-> write_if_not_exists(h.config_file, "default",
                                                           fail = "write_config"),
                       signals_file |-> write_if_not_exists(h.signals_file, "empty",
                                                            fail = "write_signals"),
                       settings |-> merged.settings]
         IN  [result |-> IF merged.panicked THEN "Panic" ELSE "Ok", home |-> after]

----------------------------------------------------------------------------
(* collect.rs *)

(* history.drain(..excess) when history.len() > config.max_history *)
trim_drops_newest(hist, max_history) ==
    IF Len(hist) > max_history THEN Take(hist, max_history) ELSE hist

trim(hist, max_history) ==
    IF Len(hist) > max_history THEN Drop(hist, Len(hist) - max_history) ELSE hist

----------------------------------------------------------------------------
(* The inputs of the model *)

(* the signal values a collect run can extract from the documents *)
SignalInputs ==
    { Signals(80, 500, 80, 80),
      Signals(44, 300, 44, 44),
      Signals(None, None, None, None),
      Signals(80, 300, 80, 80) }

ThresholdMaps ==
    { DefaultThresholds,
      [n \in {"vocabulary_diversity", "evidence_grounding"} |-> DefaultThresholds[n]],
      [DefaultThresholds EXCEPT !["vocabulary_diversity"] = ThresholdPair(5, 5)] }

Configs ==
    [thresholds : ThresholdMaps,
     window_size : {3, 4},
     max_history : {5},
     alert_after_sessions : {2, 4, 5}]
    \cup
    [thresholds : {DefaultThresholds},
     window_size : {3},
     max_history : {3},
     alert_after_sessions : {2}]

(* values of the --window argument of the analyze command; 10 is its default *)
AnalyzeWindows == {0, 2, 10}

RECURSIVE SeqsUpTo(_, _)
SeqsUpTo(S, k) ==
    IF k = 0 THEN {<<>>}
    ELSE LET shorter == SeqsUpTo(S, k - 1)
         IN  shorter \cup {Append(q, x) : q \in {r \in shorter : Len(r) = k - 1}, x \in S}

(* a persisted history: snapshot i was stamped at time i *)
Stamped(sigseq) == [i \in 1..Len(sigseq) |-> SignalVector(i, sigseq[i])]

(* the contents of signals.json before the first run of the model: the empty
   history that init writes, a history of one snapshot, and a history of
   four snapshots (longer than the smaller max_history) *)
InitialHistories ==
    {Stamped(<<>>)}
    \cup {Stamped(<<x>>) : x \in SignalInputs}
    \cup {Stamped(<<Signals(80, 500, 80, 80), Signals(80, 500, 80, 80),
                    Signals(80, 500, 80, 80), Signals(80, 500, 80, 80)>>)}

SparkValues == {0, 1, 2, 7}

NotRendered == [rendered |-> FALSE, panicked |-> FALSE, out |-> <<>>]

(* the lines CURIOSITY.md is made of: "## Open Questions", "##  open questions ", "## Reopened", "## Done", "### q" and the blank line *)
CuriosityLines ==
    {<<"#", "#", " ", "O", "p", "e", "n", " ", "Q", "u", "e", "s", "t", "i", "o", "n", "s">>,
     <<"#", "#", " ", " ", "o", "p", "e", "n", " ", "q", "u", "e", "s", "t", "i", "o", "n", "s", " ">>,
     <<"#", "#", " ", "R", "e", "o", "p", "e", "n", "e", "d">>,
     <<"#", "#", " ", "D", "o", "n", "e">>,
     <<"#", "#", "#", " ", "q">>,
     <<>>}

(* the lines THOUGHTS.md is made of: "## Active", "## Graduated", "## Dissolved", "## Active / Graduated", "### t" and "note" *)
ThoughtLines ==
    {<<"#", "#", " ", "A", "c", "t", "i", "v", "e">>,
     <<"#", "#", " ", "G", "r", "a", "d", "u", "a", "t", "e", "d">>,
     <<"#", "#", " ", "D", "i", "s", "s", "o", "l", "v", "e", "d">>,
     <<"#", "#", " ", "A", "c", "t", "i", "v", "e", " ", "/", " ", "G", "r", "a", "d", "u", "a", "t", "e", "d">>,
     <<"#", "#", "#", " ", "t">>,
     <<"n", "o", "t", "e">>}

(* the lines REFLECTIONS.md is made of: "## Lessons", "## Misc", "### e", "on 2026-02-25", "on 2026-2-25", "D said", "a Study" and "last night" *)
ReflectionLines ==
    {<<"#", "#", " ", "L", "e", "s", "s", "o", "n", "s">>,
     <<"#", "#", " ", "M", "i", "s", "c">>,
     <<"#", "#", "#", " ", "e">>,
     <<"o", "n", " ", "2", "0", "2", "6", "-", "0", "2", "-", "2", "5">>,
     <<"o", "n", " ", "2", "0", "2", "6", "-", "2", "-", "2", "5">>,
     <<"D", " ", "s", "a", "i", "d">>,
     <<"a", " ", "S", "t", "u", "d", "y">>,
     <<"l", "a", "s", "t", " ", "n", "i", "g", "h", "t">>}

(* the lines a document with entries is made of: "## Lessons", "## Misc",
   "### e", "### f ", "a", "b" and the line of one space *)
EntryLines ==
    {<<"#", "#", " ", "L", "e", "s", "s", "o", "n", "s">>,
     <<"#", "#", " ", "M", "i", "s", "c">>,
     <<"#", "#", "#", " ", "e">>,
     <<"#", "#", "#", " ", "f", " ">>,
     <<"a">>,
     <<"b">>,
     <<" ">>}

(* the days of the clock readings: the first MaxDay days from the epoch,
   and 2000-02-29, 2000-03-01, 2026-02-27, 2100-02-28, 2100-03-01,
   9999-12-31, 10000-01-01 and 10001-01-01 *)
ClockDays == (0..MaxDay) \cup {11016, 11017, 20511, 47540, 47541, 2932896, 2932897, 2933263}

(* the seconds of the day of the clock readings *)
ClockTimes == {0, 1, 59, 60, 3599, 3600, 86399}

(* the texts given to parse_iso_epoch that no clock reading formats: the
   empty text, "2026-02-27", "2026-02-27T10:00:0", "2026-02-27T10:00:00",
   "2026-02-27 10.00.00 UTC", "2026-xx-27T10:00:00Z", "1969-12-31T23:59:59Z" *)
TimestampTexts ==
    {<<>>,
     <<"2", "0", "2", "6", "-", "0", "2", "-", "2", "7">>,
     <<"2", "0", "2", "6", "-", "0", "2", "-", "2", "7", "T", "1", "0", ":", "0", "0", ":", "0">>,
     <<"2", "0", "2", "6", "-", "0", "2", "-", "2", "7", "T", "1", "0", ":", "0", "0", ":", "0", "0">>,
     <<"2", "0", "2", "6", "-", "0", "2", "-", "2", "7", " ", "1", "0", ".", "0", "0", ".", "0", "0", " ", "U", "T", "C">>,
     <<"2", "0", "2", "6", "-", "x", "x", "-", "2", "7", "T", "1", "0", ":", "0", "0", ":", "0", "0", "Z">>,
     <<"1", "9", "6", "9", "-", "1", "2", "-", "3", "1", "T", "2", "3", ":", "5", "9", ":", "5", "9", "Z">>}

(* the clock readings at which the first pulse may run:
   2026-02-27T10:00:00Z and 9999-12-31T23:59:57Z *)
PulseClocks == {Seconds(20511, 36000), Seconds(2932896, 86397)}

(* config.cooldown_seconds: none, the default *)
Cooldowns == {0, 60}

(* the seconds that pass before a pulse run, and within one between the
   cooldown check and the stamp *)
Waits == {0, 59, 60}
Durations == {0, 1}

(* the calls of pulse::run that can fail; a failed write leaves the file as
   it was, or unreadable *)
PulseFailures ==
    {"none", "load_config", "load_pulse_state", "save_pulse_state", "save_pulse_state torn",
     "load_analysis"}

(* pulse-state.json before the first run: missing, or holding a text that
   is no timestamp *)
InitialPulseStates ==
    {[readable |-> TRUE, last_pulse |-> <<>>],
     [readable |-> TRUE, last_pulse |-> <<<<"n", "e", "v", "e", "r">>>>]}

(* the two collect runs that execute at the same time *)
Procs == {1, 2}

(* a collect run before its first step *)
NotStarted == [pc |-> "start", vector |-> <<>>, history |-> <<>>]

(* the calls of collect::run that can fail; a failed write is taken to
   leave its file as it was *)
CollectFailures == {"none", "load_config", "load_signals", "save_signals", "save_analysis"}

(* the commands of the hook entries settings.json holds before the first
   init: "vigil-echo pulse --quiet" and "echo hi" beside the two of init *)
QUIET_PULSE == <<"v", "i", "g", "i", "l", "-", "e", "c", "h", "o", " ", "p", "u", "l", "s", "e", " ", "-", "-", "q", "u", "i", "e", "t">>
OTHER_COMMAND == <<"e", "c", "h", "o", " ", "h", "i">>

(* settings.json before the first init *)
InitialSettings ==
    {Settings("Missing", <<>>, <<>>), Settings("Unparsable", <<>>, <<>>),
     Settings("NotObject", <<>>, <<>>)}
    \cup {Settings("Object", pre, post) :
            pre \in {<<>>, <<OTHER_COMMAND>>, <<PULSE_COMMAND>>, <<QUIET_PULSE>>,
                     <<OTHER_COMMAND, PULSE_COMMAND>>},
            post \in {<<>>, <<COLLECT_COMMAND>>}}

(* the home directory before the first init: config.json and signals.json
   are missing or hold what the user or an earlier version wrote *)
InitialHomes ==
    {[claude_dir |-> FALSE, config_file |-> "missing", signals_file |-> "missing",
      settings |-> Settings("Missing", <<>>, <<>>)]}
    \cup [claude_dir : {TRUE}, config_file : {"missing", "custom"},
          signals_file : {"missing", "collected"}, settings : InitialSettings]

(* the writes of init::run that can fail *)
InitFailures == {"none", "write_config", "write_signals", "write_settings"}

(* the text of a file whose lines are ls, each ended by "\n" *)
RECURSIVE Document(_)
Document(ls) ==
    IF ls = <<>> THEN <<>> ELSE Head(ls) \o <<"\n">> \o Document(Tail(ls))

Documents(LineSet) == {Document(ls) : ls \in SeqsUpTo(LineSet, MaxLines)}

(* the series and the value given to stats::streak and
   stats::percentile_rank, in units of half the tolerance *)
StatValues == {0, 1, 3, 6}

NotStreaked == [done |-> FALSE, direction |-> 0, count |-> 0]
NotRanked == [done |-> FALSE, rank |-> Zero]
NotExtracted == [done |-> FALSE, value |-> <<>>, counts |-> <<>>]

(* no statistic has been asked for, no document has been read *)
NoStats == value = 0 /\ streaked = NotStreaked /\ ranked = NotRanked
NotListed == [done |-> FALSE, list |-> <<>>]
NoDocument == doc = <<>> /\ signal = NotExtracted /\ listed = NotListed

(* no pulse has run; where the pulse command is not part of a specification
   its state is left empty *)
NotPulsed == [runs |-> 0, kind |-> "none", printed |-> "nothing", at |-> Seconds(0, 0),
              last_before |-> [readable |-> TRUE, last_pulse |-> <<>>], previous |-> <<>>]
NoPulse == clock = 0 /\ cooldown_seconds = 0 /\ pulse_state = <<>> /\ pulsed = <<>>

(* no collect run is under way and none has ended *)
NoOutcome == [ended |-> FALSE]
NoRuns == procs = <<>> /\ outcome = NoOutcome

(* init has not run; where the init command is not part of a specification
   its state is left empty *)
NotInitialised == [runs |-> 0, result |-> "none", after_success |-> FALSE,
                   config_before |-> "missing", signals_before |-> "missing"]
NoHome == home = <<>> /\ initialised = <<>>

(* no timestamp has been formatted *)
NotStamped == [done |-> FALSE]
NoTime == secs = 0 /\ stamped = NotStamped

NoLater == NoPulse /\ NoRuns /\ NoHome /\ NoTime

----------------------------------------------------------------------------
(* The collect runs: Spec *)

Init ==
    /\ config \in Configs
    /\ history \in InitialHistories
    /\ analysis = NoAnalysis
    /\ used = config
    /\ appended = history
    /\ collected = 0
    /\ series = <<>>
    /\ width = 0
    /\ spark = NotRendered
    /\ NoStats
    /\ NoDocument
    /\ NoLater

(* collect::run with every file operation succeeding: the run stamps the
   extracted signals with the time now, loads the history, appends, trims,
   saves the history, analyses it and saves the analysis *)
Collect(sigs) ==
    /\ collected < MaxRuns
    /\ LET now == Len(appended) + 1
           vector == SignalVector(now, sigs)
           pushed == Append(history, vector)
           trimmed == trim(pushed, config.max_history)
       IN  /\ history' = trimmed
           /\ analysis' = run(trimmed, config, now)
           /\ appended' = Append(appended, vector)
    /\ used' = config
    /\ collected' = collected + 1
    /\ UNCHANGED <<config, sparkVars, statVars, docVars, laterVars>>

(* the analyze command of main: load the configuration, override its
   window_size with --window, load the history, analyse it and save the
   analysis *)
Analyze(window) ==
    /\ LET c == [config EXCEPT !.window_size = window]
       IN  /\ analysis' = run(history, c, Len(appended) + 1)
           /\ used' = c
    /\ UNCHANGED <<config, history, appended, collected, sparkVars, statVars, docVars, laterVars>>

Next ==
    \/ \E sigs \in SignalInputs : Collect(sigs)
    \/ \E window \in AnalyzeWindows : Analyze(window)

Spec == Init /\ [][Next]_vars

(* the same runs under the shipped thresholds of Config::default() *)
DefaultInit == Init /\ config.thresholds = DefaultThresholds

DefaultSpec == DefaultInit /\ [][Next]_vars

----------------------------------------------------------------------------
(* stats::sparkline applied to a series: SparkSpec *)

SparkInit ==
    /\ series \in SeqsUpTo(SparkValues, MaxSeries)
    /\ width \in 0..MaxWidth
    /\ spark = NotRendered
    /\ config \in {c \in Configs : c.thresholds = DefaultThresholds /\ c.window_size = 4
                                     /\ c.max_history = 5 /\ c.alert_after_sessions = 4}
    /\ history = <<>>
    /\ analysis = NoAnalysis
    /\ used = config
    /\ appended = <<>>
    /\ collected = 0
    /\ NoStats
    /\ NoDocument
    /\ NoLater

Sparkline ==
    /\ ~spark.rendered
    /\ LET r == sparkline(series, width)
       IN  spark' = [rendered |-> TRUE, panicked |-> r.panicked, out |-> r.out]
    /\ UNCHANGED <<series, width, analyzeVars, statVars, docVars, laterVars>>

SparkNext == Sparkline

SparkSpec == SparkInit /\ [][SparkNext]_vars

----------------------------------------------------------------------------
(* stats::streak and stats::percentile_rank applied to a series: StatSpec *)

StatInit ==
    /\ series \in SeqsUpTo(StatValues, MaxSeries)
    /\ value \in StatValues
    /\ streaked = NotStreaked
    /\ ranked = NotRanked
    /\ width = 0
    /\ spark = NotRendered
    /\ config \in {c \in Configs : c.thresholds = DefaultThresholds /\ c.window_size = 4
                                     /\ c.max_history = 5 /\ c.alert_after_sessions = 4}
    /\ history = <<>>
    /\ analysis = NoAnalysis
    /\ used = config
    /\ appended = <<>>
    /\ collected = 0
    /\ NoDocument
    /\ NoLater

Streak ==
    /\ ~streaked.done
    /\ LET r == streak(series)
       IN  streaked' = [done |-> TRUE, direction |-> r.direction, count |-> r.count]
    /\ UNCHANGED <<value, ranked, analyzeVars, sparkVars, docVars, laterVars>>

PercentileRank ==
    /\ ~ranked.done
    /\ ranked' = [done |-> TRUE, rank |-> percentile_rank(value, series)]
    /\ UNCHANGED <<value, streaked, analyzeVars, sparkVars, docVars, laterVars>>

StatNext == Streak \/ PercentileRank

StatSpec == StatInit /\ [][StatNext]_vars

----------------------------------------------------------------------------
(* The extractors of signals.rs applied to a document: CuriositySpec,
   ThoughtSpec and ReflectionSpec *)

DocInit(LineSet) ==
    /\ doc \in Documents(LineSet)
    /\ signal = NotExtracted
    /\ listed = NotListed
    /\ NoLater
    /\ series = <<>>
    /\ width = 0
    /\ spark = NotRendered
    /\ config \in {c \in Configs : c.thresholds = DefaultThresholds /\ c.window_size = 4
                                     /\ c.max_history = 5 /\ c.alert_after_sessions = 4}
    /\ history = <<>>
    /\ analysis = NoAnalysis
    /\ used = config
    /\ appended = <<>>
    /\ collected = 0
    /\ NoStats

Extracted(r) ==
    /\ ~signal.done
    /\ signal' = [done |-> TRUE, value |-> r.value, counts |-> r.counts]
    /\ UNCHANGED <<doc, listed, analyzeVars, sparkVars, statVars, laterVars>>

QuestionGeneration == Extracted(question_generation(doc))

ThoughtLifecycle == Extracted(thought_lifecycle(doc))

EvidenceGrounding == Extracted(evidence_grounding(doc))

(* parser::extract_entries applied to a document, with the sections
   evidence_grounding designates *)
ExtractEntries ==
    /\ ~listed.done
    /\ listed' = [done |-> TRUE, list |-> extract_entries(doc, REFLECTION_SECTIONS)]
    /\ UNCHANGED <<doc, signal, analyzeVars, sparkVars, statVars, laterVars>>

EntriesSpec == DocInit(EntryLines) /\ [][ExtractEntries]_vars

CuriositySpec == DocInit(CuriosityLines) /\ [][QuestionGeneration]_vars

ThoughtSpec == DocInit(ThoughtLines) /\ [][ThoughtLifecycle]_vars

ReflectionSpec == DocInit(ReflectionLines) /\ [][EvidenceGrounding]_vars

----------------------------------------------------------------------------
(* The timestamp helpers of state.rs: TimeSpec *)

TimeInit ==
    /\ secs \in {Seconds(d, t) : d \in ClockDays, t \in ClockTimes}
    /\ stamped = NotStamped
    /\ series = <<>>
    /\ width = 0
    /\ spark = NotRendered
    /\ config \in {c \in Configs : c.thresholds = DefaultThresholds /\ c.window_size = 4
                                     /\ c.max_history = 5 /\ c.alert_after_sessions = 4}
    /\ history = <<>>
    /\ analysis = NoAnalysis
    /\ used = config
    /\ appended = <<>>
    /\ collected = 0
    /\ NoStats
    /\ NoDocument
    /\ NoPulse
    /\ NoRuns
    /\ NoHome

(* now_iso at the clock reading secs, and parse_iso_epoch of its text *)
NowIso ==
    /\ ~stamped.done
    /\ LET iso == now_iso(secs)
       IN  stamped' = [done |-> TRUE, from |-> "clock", iso |-> iso,
                       parsed |-> parse_iso_epoch(iso)]
    /\ UNCHANGED <<secs, analyzeVars, sparkVars, statVars, docVars, pulseVars, runVars, initVars>>

(* parse_iso_epoch of another text *)
ParseIsoEpoch(ts) ==
    /\ ~stamped.done
    /\ stamped' = [done |-> TRUE, from |-> "text", iso |-> ts, parsed |-> parse_iso_epoch(ts)]
    /\ UNCHANGED <<secs, analyzeVars, sparkVars, statVars, docVars, pulseVars, runVars, initVars>>

TimeNext ==
    \/ NowIso
    \/ \E ts \in TimestampTexts : ParseIsoEpoch(ts)

TimeSpec == TimeInit /\ [][TimeNext]_vars

----------------------------------------------------------------------------
(* Sequential pulse runs under a clock that never goes back: PulseSpec *)

PulseInit ==
    /\ clock \in PulseClocks
    /\ cooldown_seconds \in Cooldowns
    /\ pulse_state \in InitialPulseStates
    /\ pulsed = NotPulsed
    /\ config \in {c \in Configs : c.thresholds = DefaultThresholds /\ c.window_size = 4
                                     /\ c.max_history = 5 /\ c.alert_after_sessions = 4}
    /\ history = <<>>
    /\ analysis \in {NoAnalysis, run(<<>>, config, 0)}
    /\ used = config
    /\ appended = <<>>
    /\ collected = 0
    /\ series = <<>>
    /\ width = 0
    /\ spark = NotRendered
    /\ NoStats
    /\ NoDocument
    /\ NoRuns
    /\ NoHome
    /\ NoTime

(* one pulse run, wait seconds after the previous one ended *)
Pulse(wait, during, fail) ==
    /\ pulsed.runs < MaxPulses
    /\ LET now == Seconds(clock.days, clock.rem + wait)
           later == Seconds(now.days, now.rem + during)
           r == pulse_run(pulse_state, cooldown_seconds, analysis, now, later, fail)
       IN  /\ clock' = later
           /\ pulse_state' = r.pulse_state
           /\ pulsed' = [runs |-> pulsed.runs + 1, kind |-> r.kind, printed |-> r.printed,
                         at |-> now, last_before |-> pulse_state,
                         previous |-> IF pulsed.kind = "passed" THEN <<pulsed.at>>
                                      ELSE pulsed.previous]
    /\ UNCHANGED <<cooldown_seconds, analyzeVars, sparkVars, statVars, docVars, runVars,
                   initVars, timeVars>>

PulseNext ==
    \E wait \in Waits, during \in Durations, fail \in PulseFailures :
        Pulse(wait, during, fail)

PulseSpec == PulseInit /\ [][PulseNext]_vars

----------------------------------------------------------------------------
(* Two collect runs whose steps interleave: ConcurrentSpec.  Each run holds
   its own vector and its own copy of the history; signals.json (history) and
   analysis.json (analysis) are shared. *)

ConcurrentInit ==
    /\ procs = [p \in Procs |-> NotStarted]
    /\ outcome = NoOutcome
    /\ config \in {c \in Configs : c.thresholds = DefaultThresholds /\ c.alert_after_sessions = 4}
    /\ history \in InitialHistories
    /\ analysis = NoAnalysis
    /\ used = config
    /\ appended = history
    /\ collected = 0
    /\ series = <<>>
    /\ width = 0
    /\ spark = NotRendered
    /\ NoStats
    /\ NoDocument
    /\ NoPulse
    /\ NoHome
    /\ NoTime

(* collect.rs:9-41: the run extracts the signals and stamps its vector *)
Extract(p, sigs) ==
    /\ procs[p].pc = "start"
    /\ LET vector == SignalVector(Len(appended) + 1, sigs)
       IN  /\ procs' = [procs EXCEPT ![p] = [pc |-> "load", vector |-> <<vector>>,
                                             history |-> <<>>]]
           /\ appended' = Append(appended, vector)
    /\ UNCHANGED <<config, history, analysis, used, collected, outcome, sparkVars, statVars,
                   docVars, pulseVars, initVars, timeVars>>

(* collect.rs:44-45: load_config and load_signals *)
LoadSignals(p) ==
    /\ procs[p].pc = "load"
    /\ procs' = [procs EXCEPT ![p].pc = "push", ![p].history = history]
    /\ UNCHANGED <<analyzeVars, outcome, sparkVars, statVars, docVars, pulseVars, initVars,
                   timeVars>>

(* collect.rs:46: history.push(vector) *)
Push(p) ==
    /\ procs[p].pc = "push"
    /\ procs' = [procs EXCEPT ![p].pc = "trim",
                              ![p].history = Append(procs[p].history, procs[p].vector[1])]
    /\ UNCHANGED <<analyzeVars, outcome, sparkVars, statVars, docVars, pulseVars, initVars,
                   timeVars>>

(* collect.rs:47-50: the trim to max_history *)
Trim(p) ==
    /\ procs[p].pc = "trim"
    /\ procs' = [procs EXCEPT ![p].pc = "save",
                              ![p].history = trim(procs[p].history, config.max_history)]
    /\ UNCHANGED <<analyzeVars, outcome, sparkVars, statVars, docVars, pulseVars, initVars,
                   timeVars>>

(* collect.rs:51: save_signals *)
SaveSignals(p) ==
    /\ procs[p].pc = "save"
    /\ history' = procs[p].history
    /\ procs' = [procs EXCEPT ![p].pc = "analyze"]
    /\ UNCHANGED <<config, analysis, used, appended, collected, outcome, sparkVars, statVars,
                   docVars, pulseVars, initVars, timeVars>>

(* collect.rs:54-55: analyze::run on the run's own history, and
   save_analysis *)
SaveAnalysis(p) ==
    /\ procs[p].pc = "analyze"
    /\ analysis' = run(procs[p].history, config, procs[p].vector[1].timestamp)
    /\ used' = config
    /\ collected' = collected + 1
    /\ procs' = [procs EXCEPT ![p].pc = "done"]
    /\ UNCHANGED <<config, history, appended, outcome, sparkVars, statVars, docVars, pulseVars,
                   initVars, timeVars>>

ConcurrentNext ==
    \E p \in Procs :
        \/ \E sigs \in SignalInputs : Extract(p, sigs)
        \/ LoadSignals(p)
        \/ Push(p)
        \/ Trim(p)
        \/ SaveSignals(p)
        \/ SaveAnalysis(p)

ConcurrentSpec == ConcurrentInit /\ [][ConcurrentNext]_vars

----------------------------------------------------------------------------
(* collect::run with file operations that can fail: FailingSpec.  outcome
   keeps the result of the latest run and the two files as they were before
   it. *)

FailingInit ==
    /\ procs = <<>>
    /\ outcome = NoOutcome
    /\ config \in {c \in Configs : c.thresholds = DefaultThresholds /\ c.alert_after_sessions = 4}
    /\ history \in InitialHistories
    /\ analysis = NoAnalysis
    /\ used = config
    /\ appended = history
    /\ collected = 0
    /\ series = <<>>
    /\ width = 0
    /\ spark = NotRendered
    /\ NoStats
    /\ NoDocument
    /\ NoPulse
    /\ NoHome
    /\ NoTime

(* collect.rs:9-55: the whole run; fail names the call that returns Err *)
CollectFailing(sigs, fail) ==
    /\ collected < MaxFailingRuns
    /\ LET now == Len(appended) + 1
           vector == SignalVector(now, sigs)
           pushed == Append(history, vector)
           trimmed == trim(pushed, config.max_history)
           loadFails == fail \in {"load_config", "load_signals"}
           saveSignalsFails == fail = "save_signals"
           saveAnalysisFails == fail = "save_analysis"
           saved == ~loadFails /\ ~saveSignalsFails
       IN  /\ history' = IF saved THEN trimmed ELSE history
           /\ appended' = IF saved THEN Append(appended, vector) ELSE appended
           /\ analysis' = IF saved /\ ~saveAnalysisFails THEN run(trimmed, config, now)
                          ELSE analysis
           /\ outcome' = [ended |-> TRUE,
                          result |-> IF saved /\ ~saveAnalysisFails THEN "Ok" ELSE "Err",
                          now |-> now,
                          history_before |-> history,
                          analysis_before |-> analysis]
    /\ used' = config
    /\ collected' = collected + 1
    /\ UNCHANGED <<config, procs, sparkVars, statVars, docVars, pulseVars, initVars, timeVars>>

FailingNext == \E sigs \in SignalInputs, fail \in CollectFailures : CollectFailing(sigs, fail)

FailingSpec == FailingInit /\ [][FailingNext]_vars

----------------------------------------------------------------------------
(* Repeated init runs: InitSpec.  initialised keeps the result of the latest
   run, whether a run before it returned Ok, and config.json and
   signals.json as they were before it. *)

HomeInit ==
    /\ home \in InitialHomes
    /\ initialised = NotInitialised
    /\ config \in {c \in Configs : c.thresholds = DefaultThresholds /\ c.window_size = 4
                                     /\ c.max_history = 5 /\ c.alert_after_sessions = 4}
    /\ history = <<>>
    /\ analysis = NoAnalysis
    /\ used = config
    /\ appended = <<>>
    /\ collected = 0
    /\ series = <<>>
    /\ width = 0
    /\ spark = NotRendered
    /\ NoStats
    /\ NoDocument
    /\ NoPulse
    /\ NoRuns
    /\ NoTime

(* init.rs:189-248: one init run *)
InitRun(fail) ==
    /\ initialised.runs < MaxInits
    /\ LET r == init_run(home, fail)
       IN  /\ home' = r.home
           /\ initialised' = [runs |-> initialised.runs + 1,
                              result |-> r.result,
                              after_success |-> initialised.after_success
                                                    \/ initialised.result = "Ok",
                              config_before |-> home.config_file,
                              signals_before |-> home.signals_file]
    /\ UNCHANGED <<analyzeVars, sparkVars, statVars, docVars, pulseVars, runVars, timeVars>>

(* Claude Code is installed between two runs: ~/.claude appears *)
InstallClaude ==
    /\ ~home.claude_dir
    /\ \E h \in InitialHomes : h.claude_dir /\ home' = h
    /\ UNCHANGED <<initialised, analyzeVars, sparkVars, statVars, docVars, pulseVars, runVars,
                   timeVars>>

InitNext ==
    \/ \E fail \in InitFailures : InitRun(fail)
    \/ InstallClaude

InitSpec == HomeInit /\ [][InitNext]_vars

----------------------------------------------------------------------------
(* Vocabulary of the properties, stated on the persisted state *)

Analysed == analysis # NoAnalysis

(* the analysis window: the last min(window_size, len) snapshots *)
WindowLen == IF used.window_size < Len(history) THEN used.window_size ELSE Len(history)
WindowSlots == (Len(history) - WindowLen + 1)..Len(history)

PresentSlots(n, slots) == {i \in slots : history[i].signals[n] # None}

DecliningSignals ==
    {n \in DOMAIN analysis.signals : analysis.signals[n].trend = "Declining"}

RECURSIVE SlotSum(_, _)
SlotSum(n, slots) ==
    IF slots = {} THEN 0
    ELSE LET i == CHOOSE j \in slots : TRUE
         IN  history[i].signals[n] + SlotSum(n, slots \ {i})

(* the trailing alert_after_sessions snapshots, split at the middle *)
LookbackFirst ==
    (Len(history) - used.alert_after_sessions + 1)
        ..(Len(history) - used.alert_after_sessions + used.alert_after_sessions \div 2)
LookbackSecond ==
    (Len(history) - used.alert_after_sessions + used.alert_after_sessions \div 2 + 1)
        ..Len(history)

(* the mean of the present values of the second half is more than 0.1 below
   the mean of the present values of the first half *)
HalvesDecline(n) ==
    LET f == PresentSlots(n, LookbackFirst)
        s == PresentSlots(n, LookbackSecond)
    IN  /\ f # {}
        /\ s # {}
        /\ SlotSum(n, s) * Cardinality(f) + 10 * Cardinality(f) * Cardinality(s)
              < SlotSum(n, f) * Cardinality(s)

SustainedAsClaimed ==
    /\ Len(history) >= used.alert_after_sessions
    /\ \E n \in Names : HalvesDecline(n)

SustainedOverFourSlots ==
    /\ used.alert_after_sessions >= 4
    /\ SustainedAsClaimed

----------------------------------------------------------------------------
(* C1 as stated: Alert iff at least 3 signals are Declining and the history
   holds at least alert_after_sessions snapshots among whose trailing
   alert_after_sessions some signal's second-half mean is more than 0.1
   below its first-half mean; Concern iff at least 3 are Declining and that
   condition fails. *)
C1_AsStated ==
    Analysed =>
        /\ analysis.alert_level = "Alert"
              <=> (Cardinality(DecliningSignals) >= 3 /\ SustainedAsClaimed)
        /\ analysis.alert_level = "Concern"
              <=> (Cardinality(DecliningSignals) >= 3 /\ ~SustainedAsClaimed)

(* C1 amended: the same, with the sustained-decline condition holding only
   when the trailing sub-window has at least 4 snapshots
   (alert_after_sessions >= 4). *)
C1_AlertIffSustained ==
    Analysed =>
        /\ analysis.alert_level = "Alert"
              <=> (Cardinality(DecliningSignals) >= 3 /\ SustainedOverFourSlots)
        /\ analysis.alert_level = "Concern"
              <=> (Cardinality(DecliningSignals) >= 3 /\ ~SustainedOverFourSlots)

C1_WitnessAlert ==
    /\ Analysed
    /\ analysis.alert_level = "Alert"
    /\ Cardinality(DecliningSignals) >= 3

C1_WitnessConcern ==
    /\ Analysed
    /\ analysis.alert_level = "Concern"
    /\ used.alert_after_sessions >= 4
    /\ Len(history) >= used.alert_after_sessions

(* C2: the alert level is Healthy when no signal is Declining, Watch when 1
   or 2 are, Concern or Alert when 3 or 4 are. *)
C2_LevelByDecliningCount ==
    Analysed =>
        LET d == Cardinality(DecliningSignals)
        IN  /\ d = analysis.declining_count
            /\ d = 0 => analysis.alert_level = "Healthy"
            /\ d \in {1, 2} => analysis.alert_level = "Watch"
            /\ d \in {3, 4} => analysis.alert_level \in {"Concern", "Alert"}

(* a fully present history in which only question_generation fell *)
C2_WitnessWatch ==
    /\ Analysed
    /\ \A n \in Names : PresentSlots(n, WindowSlots) = WindowSlots
    /\ used.thresholds = DefaultThresholds
    /\ DecliningSignals = {"question_generation"}
    /\ analysis.signals["question_generation"].delta.num < 0
    /\ analysis.declining_count = 1
    /\ analysis.alert_level = "Watch"

(* C3: a signal with fewer than 3 present values among the windowed
   snapshots is never classified Improving or Declining: an entry it has is
   Stable with delta exactly 0. *)
C3_FewPresentValuesStable ==
    Analysed =>
        \A n \in Names :
            (/\ Cardinality(PresentSlots(n, WindowSlots)) < 3
             /\ n \in DOMAIN analysis.signals)
            => /\ analysis.signals[n].trend = "Stable"
               /\ analysis.signals[n].delta = Zero

(* C4: a signal absent in every snapshot of the window has no entry in the
   signals map and is counted in none of the three counts. *)
C4_AllAbsentNoEntry ==
    Analysed =>
        /\ \A n \in Names :
              PresentSlots(n, WindowSlots) = {} => n \notin DOMAIN analysis.signals
        /\ analysis.improving_count + analysis.stable_count + analysis.declining_count
              <= Cardinality({n \in Names : PresentSlots(n, WindowSlots) # {}})

(* C5: when the window holds exactly 3 snapshots, every signal's delta is 0
   and it is Stable, whatever the configured thresholds. *)
C5_EmptyBaselineStable ==
    (Analysed /\ WindowLen = 3) =>
        \A n \in DOMAIN analysis.signals :
            /\ analysis.signals[n].delta = Zero
            /\ analysis.signals[n].trend = "Stable"

(* C6: a signal without an entry in the threshold map is classified as it
   is when Config::default()'s entry for that signal is present. *)
C6_MissingEntryUsesOwnDefault ==
    Analysed =>
        \A n \in Names \ DOMAIN used.thresholds :
            LET merged == [used EXCEPT
                              !.thresholds = Insert(@, n, DefaultThresholds[n])]
                expected == run(history, merged, analysis.timestamp)
            IN  /\ (n \in DOMAIN analysis.signals) = (n \in DOMAIN expected.signals)
                /\ n \in DOMAIN analysis.signals
                      => analysis.signals[n] = expected.signals[n]

(* C7: Alert only if some signal has at least 4 present values among the
   trailing alert_after_sessions snapshots and its second-half mean is more
   than 0.1 below its first-half mean. *)
C7_AlertNeedsFourPresent ==
    (Analysed /\ analysis.alert_level = "Alert") =>
        \E n \in Names :
            /\ Cardinality(PresentSlots(n, LookbackFirst \cup LookbackSecond)) >= 4
            /\ HalvesDecline(n)

(* C8: after any sequence of collect runs the persisted history has at most
   max_history snapshots and is the most recent min(n, max_history)
   snapshots of the appended sequence, in collection order. *)
C8_HistoryIsBoundedSuffix ==
    collected > 0 =>
        LET n == Len(appended)
            k == IF n < config.max_history THEN n ELSE config.max_history
        IN  /\ Len(history) <= config.max_history
            /\ Len(history) = k
            /\ \A i \in 1..k : history[i] = appended[n - k + i]
            /\ history[k].timestamp = n

(* two collect runs, each of which dropped the oldest snapshot *)
C8_WitnessTrimmed ==
    /\ collected >= 2
    /\ Len(appended) - collected >= config.max_history - 1
    /\ Len(history) = config.max_history

(* C9: for a non-empty series and width >= 1 the sparkline has exactly
   width glyphs. *)
C9_LengthIsWidth ==
    (spark.rendered /\ Len(series) >= 1 /\ width >= 1) =>
        /\ ~spark.panicked
        /\ Len(spark.out) = width

(* C10: sparkline never aborts; the empty series and width 0 give the
   empty string. *)
C10_NeverFails ==
    spark.rendered =>
        /\ ~spark.panicked
        /\ (Len(series) = 0 \/ width = 0) => spark.out = <<>>

----------------------------------------------------------------------------
(* Vocabulary of the trend of one signal, stated on the persisted state *)

(* the 3 most recent slots of the window and the window slots before them *)
RecentSlots == (Len(history) - 2)..Len(history)
EarlierSlots == WindowSlots \ RecentSlots

(* the mean of the present values of the slots rs minus that of the slots bs *)
MeanDifference(n, rs, bs) ==
    Frac(SlotSum(n, rs) * Cardinality(bs) - SlotSum(n, bs) * Cardinality(rs),
         Cardinality(rs) * Cardinality(bs))

(* the signal's own thresholds: the configured entry, or the entry of
   Config::default() for a signal the configuration does not list *)
OwnThreshold(n) ==
    IF n \in DOMAIN used.thresholds THEN used.thresholds[n] ELSE DefaultThresholds[n]

TrendOf(d, th) ==
    IF d.num < th.decline * d.den THEN "Declining"
    ELSE IF d.num > th.improve * d.den THEN "Improving"
    ELSE "Stable"

(* C14: with at least 3 window slots, delta is the mean of the present
   values of the 3 most recent slots minus the mean of the present values of
   the earlier window slots, the trend compares delta with the signal's
   thresholds, and an undefined mean gives Stable with delta 0. *)
C14_DeltaOfPresentMeans ==
    (Analysed /\ WindowLen >= 3) =>
        \A n \in Names :
            LET rs == PresentSlots(n, RecentSlots)
                bs == PresentSlots(n, EarlierSlots)
            IN  /\ n \in DOMAIN analysis.signals
                /\ IF rs # {} /\ bs # {}
                   THEN /\ analysis.signals[n].delta = MeanDifference(n, rs, bs)
                        /\ analysis.signals[n].trend
                              = TrendOf(MeanDifference(n, rs, bs), OwnThreshold(n))
                   ELSE /\ analysis.signals[n].delta = Zero
                        /\ analysis.signals[n].trend = "Stable"

LatestPresent(n) == Len(history) > 0 /\ history[Len(history)].signals[n] # None

(* what C15 says of a run over a history of fewer than 3 snapshots *)
ShortHistoryOutcome ==
    /\ \A n \in Names :
          IF LatestPresent(n)
          THEN /\ n \in DOMAIN analysis.signals
               /\ analysis.signals[n].trend = "Stable"
               /\ analysis.signals[n].delta = Zero
          ELSE n \notin DOMAIN analysis.signals
    /\ analysis.watch_messages = <<>>
    /\ analysis.highlight = <<>>
    /\ analysis.alert_level = "Healthy"

(* C15 as stated: for a history of fewer than 3 snapshots and every
   configuration, each signal whose latest value is present has a Stable
   entry with delta 0, the others have none, there is no watch message and
   no highlight, and the level is Healthy. *)
C15_AsStated ==
    (Analysed /\ Len(history) < 3) => ShortHistoryOutcome

(* C15 amended: the same for every configuration whose window_size is at
   least 1. *)
C15_ShortHistoryStable ==
    (Analysed /\ Len(history) < 3 /\ used.window_size >= 1) => ShortHistoryOutcome

(* a run over 2 snapshots: one signal present in the latest, one absent *)
C15_WitnessShortHistory ==
    /\ Analysed
    /\ Len(history) = 2
    /\ used.window_size >= 1
    /\ \E n \in Names : LatestPresent(n) /\ n \in DOMAIN analysis.signals
    /\ collected > 0

----------------------------------------------------------------------------
(* Vocabulary of the properties of stats::streak and percentile_rank *)

(* the direction of the step from series[i] to series[i + 1], compared with
   the tolerance *)
StepDir(i) ==
    IF series[i + 1] - series[i] > EPSILON THEN 1
    ELSE IF series[i + 1] - series[i] < -EPSILON THEN -1
    ELSE 0

Steps == 1..(Len(series) - 1)

(* exactly the last k steps of the series have direction dir *)
TrailingRun(dir, k) ==
    /\ k \in Steps
    /\ \A i \in Steps : i > Len(series) - 1 - k => StepDir(i) = dir
    /\ k < Len(series) - 1 => StepDir(Len(series) - 1 - k) # dir

(* C11: streak returns (0, 0) for a series of fewer than 2 values, (1, k)
   when exactly the last k >= 1 steps rise (by more than the tolerance of
   the comparison) and (-1, k) when exactly the last k steps fall. *)
C11_StreakOfMonotoneRun ==
    streaked.done =>
        /\ Len(series) < 2 => (streaked.direction = 0 /\ streaked.count = 0)
        /\ \A k \in Steps :
              /\ TrailingRun(1, k) => (streaked.direction = 1 /\ streaked.count = k)
              /\ TrailingRun(-1, k) => (streaked.direction = -1 /\ streaked.count = k)

(* a rising run of 2 steps that does not reach the start of the series *)
C11_WitnessBrokenRun ==
    /\ streaked.done
    /\ Len(series) = 4
    /\ TrailingRun(1, 2)
    /\ streaked.count = 2

(* C12: for a series of at least 2 values the count is the number of
   trailing steps that have the direction of the final step, counted the
   same way for up, down and flat. *)
C12_SameCountingRule ==
    (streaked.done /\ Len(series) >= 2) =>
        \A k \in Steps :
            TrailingRun(StepDir(Len(series) - 1), k) => streaked.count = k

(* C13: percentile_rank is 100 * (below + 0.5 * equal) / n, lies in
   [0, 100], does not decrease when the value grows, and is 50 for the
   empty series. *)
C13_PercentileRank ==
    ranked.done =>
        LET n == Len(series)
            below == Cardinality({i \in 1..n : series[i] < value})
            equal == Cardinality({i \in 1..n : series[i] = value})
        IN  /\ n = 0 => ranked.rank = Frac(50, 1)
            /\ n > 0 => ranked.rank.num * 2 * n = 100 * (2 * below + equal) * ranked.rank.den
            /\ 0 <= ranked.rank.num
            /\ ranked.rank.num <= 100 * ranked.rank.den
            /\ \A w \in StatValues :
                  w <= value =>
                     percentile_rank(w, series).num * ranked.rank.den
                        <= ranked.rank.num * percentile_rank(w, series).den

----------------------------------------------------------------------------
(* Vocabulary of the properties of the extractors, stated on the lines of
   the document *)

DocLines == lines(doc)

(* the sub-entry lines: "### q", "### t", "### e", "### f " *)
SubEntryLines ==
    {<<"#", "#", "#", " ", "q">>,
     <<"#", "#", "#", " ", "t">>,
     <<"#", "#", "#", " ", "e">>,
     <<"#", "#", "#", " ", "f", " ">>}

(* the headings of an Open Questions section: "## Open Questions", "##  open questions " *)
OpenQuestionsHeadings ==
    {<<"#", "#", " ", "O", "p", "e", "n", " ", "Q", "u", "e", "s", "t", "i", "o", "n", "s">>,
     <<"#", "#", " ", " ", "o", "p", "e", "n", " ", "q", "u", "e", "s", "t", "i", "o", "n", "s", " ">>}

(* the headings that contain the word open: "## Open Questions", "##  open questions ", "## Reopened" *)
OpenHeadings ==
    {<<"#", "#", " ", "O", "p", "e", "n", " ", "Q", "u", "e", "s", "t", "i", "o", "n", "s">>,
     <<"#", "#", " ", " ", "o", "p", "e", "n", " ", "q", "u", "e", "s", "t", "i", "o", "n", "s", " ">>,
     <<"#", "#", " ", "R", "e", "o", "p", "e", "n", "e", "d">>}

(* the headings that name the active section: "## Active", "## Active / Graduated" *)
ActiveHeadings ==
    {<<"#", "#", " ", "A", "c", "t", "i", "v", "e">>,
     <<"#", "#", " ", "A", "c", "t", "i", "v", "e", " ", "/", " ", "G", "r", "a", "d", "u", "a", "t", "e", "d">>}

(* the headings that name the graduated section: "## Graduated", "## Active / Graduated" *)
GraduatedHeadings ==
    {<<"#", "#", " ", "G", "r", "a", "d", "u", "a", "t", "e", "d">>,
     <<"#", "#", " ", "A", "c", "t", "i", "v", "e", " ", "/", " ", "G", "r", "a", "d", "u", "a", "t", "e", "d">>}

(* the headings that name the dissolved section: "## Dissolved" *)
DissolvedHeadings ==
    {<<"#", "#", " ", "D", "i", "s", "s", "o", "l", "v", "e", "d">>}

(* the headings of an observations, patterns or lessons section: "## Lessons" *)
ReflectionHeadings ==
    {<<"#", "#", " ", "L", "e", "s", "s", "o", "n", "s">>}

(* the headings of the other sections: "## Done", "## Misc" *)
OtherHeadings ==
    {<<"#", "#", " ", "D", "o", "n", "e">>,
     <<"#", "#", " ", "M", "i", "s", "c">>}

(* the body lines that carry an evidence marker: a date, an attribution, a research phrase, an event phrase: "on 2026-02-25", "D said", "a Study", "last night" *)
EvidenceLines ==
    {<<"o", "n", " ", "2", "0", "2", "6", "-", "0", "2", "-", "2", "5">>,
     <<"D", " ", "s", "a", "i", "d">>,
     <<"a", " ", "S", "t", "u", "d", "y">>,
     <<"l", "a", "s", "t", " ", "n", "i", "g", "h", "t">>}

HeadingLines ==
    OpenHeadings \cup ActiveHeadings \cup GraduatedHeadings \cup DissolvedHeadings
        \cup ReflectionHeadings \cup OtherHeadings

(* the sub-entry lines that follow a heading of Hs before the next heading *)
SubEntriesUnder(Hs) ==
    {i \in 1..Len(DocLines) :
        /\ DocLines[i] \in SubEntryLines
        /\ \E j \in 1..(i - 1) :
              /\ DocLines[j] \in Hs
              /\ \A k \in (j + 1)..(i - 1) : DocLines[k] \notin HeadingLines}

AllSubEntries == {i \in 1..Len(DocLines) : DocLines[i] \in SubEntryLines}

(* the lines of the entry that starts at line i, up to the next sub-entry
   or heading *)
BodyLines(i) ==
    {k \in (i + 1)..Len(DocLines) :
        \A m \in (i + 1)..k : DocLines[m] \notin HeadingLines \cup SubEntryLines}

Grounded(i) == \E k \in BodyLines(i) : DocLines[k] \in EvidenceLines

(* C16: question_generation is absent exactly for the empty document;
   otherwise it is a present count >= 0, the number of sub-entry lines under
   the matching headings (Open Questions, or containing open), and 0 when no
   sub-entry stands under any such heading. *)
C16_QuestionCount ==
    signal.done =>
        /\ (signal.value = Absent) <=> (doc = <<>>)
        /\ doc # <<>> =>
              /\ signal.value[1].num >= 0
              /\ \/ signal.value = Present(Cardinality(SubEntriesUnder(OpenQuestionsHeadings)), 1)
                 \/ signal.value = Present(Cardinality(SubEntriesUnder(OpenHeadings)), 1)
        /\ (doc # <<>> /\ SubEntriesUnder(OpenHeadings) = {}) => signal.value = Present(0, 1)

(* one sub-entry under Open Questions is counted, one under another section
   is not *)
C16_WitnessCounted ==
    /\ signal.done
    /\ signal.value = Present(1, 1)
    /\ Cardinality(SubEntriesUnder(OpenQuestionsHeadings)) = 1
    /\ Cardinality(SubEntriesUnder(OtherHeadings)) = 1

(* C17: whenever the document has an Open Questions section, the result is
   the number of sub-entries under it, whatever stands under other headings
   that contain the word open. *)
C17_ExactSectionWins ==
    (signal.done /\ \E i \in 1..Len(DocLines) : DocLines[i] \in OpenQuestionsHeadings) =>
        signal.value = Present(Cardinality(SubEntriesUnder(OpenQuestionsHeadings)), 1)

(* C18: thought_lifecycle is absent for the empty document and when the
   three counts sum to zero; otherwise it is (graduated + dissolved) /
   (active + graduated + dissolved), which lies in [0, 1]. *)
C18_LifecycleRatio ==
    signal.done =>
        LET active == Cardinality(SubEntriesUnder(ActiveHeadings))
            graduated == Cardinality(SubEntriesUnder(GraduatedHeadings))
            dissolved == Cardinality(SubEntriesUnder(DissolvedHeadings))
            total == active + graduated + dissolved
        IN  /\ (signal.value = Absent) <=> (doc = <<>> \/ total = 0)
            /\ signal.value # Absent =>
                  /\ signal.value = Present(graduated + dissolved, total)
                  /\ 0 <= signal.value[1].num
                  /\ signal.value[1].num <= signal.value[1].den

(* one active and one dissolved thought, each under its own heading *)
C18_WitnessHalf ==
    /\ signal.done
    /\ signal.value = Present(1, 2)
    /\ Cardinality(SubEntriesUnder({h \in ActiveHeadings : h \notin GraduatedHeadings})) = 1
    /\ Cardinality(SubEntriesUnder(DissolvedHeadings)) = 1
    /\ \A i \in 1..Len(DocLines) : DocLines[i] \notin ActiveHeadings \cap GraduatedHeadings

(* C19: every sub-entry is counted in at most one of the active, graduated
   and dissolved counts, so their sum never exceeds the number of sub-entry
   lines of the document. *)
C19_SectionsExclusive ==
    (signal.done /\ doc # <<>>) =>
        signal.counts[1] + signal.counts[2] + signal.counts[3] <= Cardinality(AllSubEntries)

(* C20: evidence_grounding is absent for the empty document and when no
   entry stands under an observations, patterns or lessons section;
   otherwise it is the number of entries whose body carries an evidence
   marker divided by the number of entries. *)
C20_GroundedFraction ==
    signal.done =>
        LET entries == SubEntriesUnder(ReflectionHeadings)
            grounded == {i \in entries : Grounded(i)}
        IN  /\ (signal.value = Absent) <=> (doc = <<>> \/ entries = {})
            /\ signal.value # Absent =>
                  signal.value = Present(Cardinality(grounded), Cardinality(entries))

(* two entries, one of them grounded: 0.5 *)
C20_WitnessHalf ==
    /\ signal.done
    /\ signal.value = Present(1, 2)
    /\ Cardinality(SubEntriesUnder(ReflectionHeadings)) = 2
    /\ Cardinality({i \in SubEntriesUnder(ReflectionHeadings) : Grounded(i)}) = 1

----------------------------------------------------------------------------
(* Vocabulary of the glyph levels of stats::sparkline *)

SeriesMin == fold_min(series)
SeriesMax == fold_max(series)

(* the level 0..7 of the value v by its position between the minimum and
   the maximum of the whole series: round(7 * (v - min) / (max - min)) *)
LevelInSeries(v) ==
    LET r == SeriesMax - SeriesMin
        x == (14 * (v - SeriesMin) + r) \div (2 * r)
    IN  IF x > 7 THEN 7 ELSE x

(* C21: for a non-empty series and width >= 1, every rendered value is
   quantized by its position between the minimum and the maximum of the
   whole input series; a flat series renders every point as the mid-level
   glyph. *)
C21_QuantizedBySeriesRange ==
    (spark.rendered /\ ~spark.panicked /\ Len(series) >= 1 /\ width >= 1) =>
        \A i \in 1..Len(spark.out) :
            spark.out[i] = IF SeriesMin = SeriesMax
                           THEN BLOCKS[4]
                           ELSE BLOCKS[LevelInSeries(sampled_of(series, width)[i]) + 1]

----------------------------------------------------------------------------
(* Vocabulary of the fields of the Analysis *)

(* the last min(window_size, len) snapshots of a history *)
WindowOf(hist) ==
    SubSeq(hist, Len(hist) - Min(used.window_size, Len(hist)) + 1, Len(hist))

(* older snapshots another history may hold before the same window *)
OlderSnapshots ==
    {<<>>,
     <<SignalVector(0, Signals(44, 300, 44, 44))>>,
     <<SignalVector(0, Signals(None, None, None, None))>>,
     <<SignalVector(0, Signals(80, 500, 80, 80)), SignalVector(0, Signals(44, 300, 44, 44))>>}

(* the histories that share the trailing window of the analysed history *)
SameWindowHistories ==
    {h \in {older \o WindowOf(history) : older \in OlderSnapshots} :
        WindowOf(h) = WindowOf(history)}

WindowFields(a) ==
    <<a.signals, a.improving_count, a.stable_count, a.declining_count,
      a.watch_messages, a.highlight>>

(* C22: the trend map, the three counts, the watch messages and the
   highlight depend only on the trailing window: every history that shares
   the last min(window_size, length) snapshots gives the same values under
   the same configuration. *)
C22_DependsOnWindowOnly ==
    Analysed =>
        \A h \in SameWindowHistories :
            WindowFields(run(h, used, analysis.timestamp)) = WindowFields(analysis)

(* a history longer than its window, with a declining signal in the window,
   and another history with the same window and different older snapshots *)
C22_WitnessOlderDiffer ==
    /\ Analysed
    /\ used.window_size >= 3
    /\ Len(history) > used.window_size
    /\ analysis.declining_count >= 1
    /\ \E h \in SameWindowHistories : Len(h) > used.window_size /\ h # history

ImprovingSignals ==
    {n \in DOMAIN analysis.signals : analysis.signals[n].trend = "Improving"}

(* delta of signal a is greater than delta of signal b *)
DeltaGreater(a, b) ==
    analysis.signals[a].delta.num * analysis.signals[b].delta.den
        > analysis.signals[b].delta.num * analysis.signals[a].delta.den

Position(n) == CHOOSE i \in 1..Len(SIGNAL_NAMES) : SIGNAL_NAMES[i] = n

(* the Improving signals of largest delta *)
LargestImproving ==
    {n \in ImprovingSignals : \A m \in ImprovingSignals : ~DeltaGreater(m, n)}

FriendlyNames ==
    [n \in Names |->
        CASE n = "vocabulary_diversity" -> "vocabulary diversity"
          [] n = "question_generation" -> "question generation"
          [] n = "thought_lifecycle" -> "thought lifecycle"
          [] n = "evidence_grounding" -> "evidence grounding"]

(* C23: the highlight is present iff improving_count >= 1, and it names the
   Improving signal of largest delta, the earliest in the order of
   SIGNAL_NAMES when deltas tie. *)
C23_HighlightIsLargestImproving ==
    Analysed =>
        /\ (analysis.highlight # <<>>) <=> (analysis.improving_count >= 1)
        /\ analysis.highlight # <<>> =>
              \E n \in LargestImproving :
                  /\ \A m \in LargestImproving : Position(n) <= Position(m)
                  /\ analysis.highlight[1].name = FriendlyNames[n]

(* two Improving signals tie in the largest delta *)
C23_WitnessTie ==
    /\ Analysed
    /\ Cardinality(LargestImproving) >= 2
    /\ analysis.highlight # <<>>
    /\ collected > 0

(* C25: the three counts sum to the number of entries of the signals map,
   which is at most 4; there is one watch message per declining signal;
   data_points is the length of the whole history. *)
C25_CountsAgree ==
    Analysed =>
        /\ analysis.improving_count + analysis.stable_count + analysis.declining_count
              = Cardinality(DOMAIN analysis.signals)
        /\ Cardinality(DOMAIN analysis.signals) <= 4
        /\ Len(analysis.watch_messages) = analysis.declining_count
        /\ analysis.data_points = Len(history)

(* a window shorter than the history, with signals in each of the counts *)
C25_WitnessMixed ==
    /\ Analysed
    /\ Len(history) > used.window_size
    /\ used.window_size >= 3
    /\ analysis.declining_count >= 1
    /\ analysis.stable_count >= 1
    /\ analysis.data_points = Len(history)

----------------------------------------------------------------------------
(* Vocabulary of the entries of a document *)

(* the title of a sub-entry line: "### e" is e, "### f " is f *)
TitleOf(line) == IF line = <<"#", "#", "#", " ", "e">> THEN <<"e">> ELSE <<"f">>

BlankLines == {<<>>, <<" ">>}

(* the non-blank lines among lines i + 1 .. k of the body of the entry at
   line i, each followed by one space *)
RECURSIVE BodyText(_, _)
BodyText(i, k) ==
    IF k <= i THEN <<>>
    ELSE IF k \in BodyLines(i) /\ DocLines[k] \notin BlankLines
         THEN BodyText(i, k - 1) \o DocLines[k] \o <<" ">>
         ELSE BodyText(i, k - 1)

(* the entries that start in lines 1 .. k, in document order *)
RECURSIVE EntriesUpTo(_)
EntriesUpTo(k) ==
    IF k = 0 THEN <<>>
    ELSE IF k \in SubEntriesUnder(ReflectionHeadings)
         THEN Append(EntriesUpTo(k - 1),
                     [title |-> TitleOf(DocLines[k]), body |-> BodyText(k, Len(DocLines))])
         ELSE EntriesUpTo(k - 1)

(* C24: extract_entries returns, in document order, one (title, body) pair
   per sub-entry line under a designated section; the body holds only the
   non-blank lines between that line and the next sub-entry or heading, and
   sub-entry lines under other sections give no entry. *)
C24_EntriesBySection ==
    listed.done => listed.list = EntriesUpTo(Len(DocLines))

(* two entries under a designated section: the body line of the first is
   not part of the second *)
C24_WitnessTwoEntries ==
    /\ listed.done
    /\ Len(listed.list) = 2
    /\ listed.list[1].body # <<>>
    /\ listed.list[2].body = <<>>

----------------------------------------------------------------------------
(* Vocabulary of the timestamps *)

(* the date of the clock reading *)
ClockDate == days_to_date(secs.days)

(* the date and the day count are inverse at the clock reading, and the
   date is a calendar date *)
DateInverse ==
    /\ date_to_days(ClockDate.year, ClockDate.month, ClockDate.day) = secs.days
    /\ ClockDate.month \in 1..12
    /\ ClockDate.day \in 1..31

RoundTrips == stamped.parsed = [kind |-> "Some", secs |-> secs]

ShortTextGivesNone ==
    (stamped.done /\ Len(stamped.iso) < 19) => stamped.parsed = [kind |-> "None"]

(* C30: for every t >= 0, parse_iso_epoch of the text now_iso
   formats for t is t; days_to_date and date_to_days are inverse, with month
   in 1..12 and day in 1..31; a text shorter than 19 characters gives
   None. *)
C30_RoundTrip ==
    /\ (stamped.done /\ stamped.from = "clock") => (RoundTrips /\ DateInverse)
    /\ ShortTextGivesNone

----------------------------------------------------------------------------
(* Vocabulary of the pulse runs *)

(* the latest run passed the cooldown check, stamped and printed, and so
   did an earlier one *)
SecondPass == pulsed.kind = "passed" /\ pulsed.previous # <<>>

(* the seconds between the latest two runs that passed *)
SincePreviousPass == seconds_between(pulsed.previous[1], pulsed.at)

SuppressedIsSilent ==
    pulsed.kind = "suppressed" =>
        (pulsed.printed = "nothing" /\ pulse_state = pulsed.last_before)

(* C26: under a clock that never goes back, two runs that both
   pass the cooldown check are at least cooldown_seconds apart, and a
   suppressed run prints nothing and leaves the stored last_pulse
   unchanged. *)
C26_CooldownApart ==
    /\ SecondPass => SincePreviousPass >= cooldown_seconds
    /\ SuppressedIsSilent

----------------------------------------------------------------------------
(* Vocabulary of the concurrent collect runs *)

BothCompleted == \A p \in Procs : procs[p].pc = "done"

(* how many times the snapshot of run p is in the persisted history *)
TimesPersisted(p) == Cardinality({i \in 1..Len(history) : history[i] = procs[p].vector[1]})

(* C27: when two collect runs execute concurrently, their load, append, trim
   and save steps interleaved in any order, with max_history >= 2, the
   persisted history after both have completed holds the snapshot of each
   run exactly once. *)
C27_BothSnapshotsOnce ==
    (BothCompleted /\ config.max_history >= 2) => \A p \in Procs : TimesPersisted(p) = 1

----------------------------------------------------------------------------
(* Vocabulary of the failing collect runs *)

ReturnedErr == outcome.ended /\ outcome.result = "Err"
ReturnedOk == outcome.ended /\ outcome.result = "Ok"

FilesAsBefore ==
    /\ history = outcome.history_before
    /\ analysis = outcome.analysis_before

(* C28: a collect run that returns an error leaves signals.json and
   analysis.json exactly as they were before the run; after a successful
   run the persisted analysis is the one computed from the history just
   persisted. *)
C28_ErrorLeavesFiles ==
    /\ ReturnedErr => FilesAsBefore
    /\ ReturnedOk => analysis = run(history, config, outcome.now)

----------------------------------------------------------------------------
(* Vocabulary of the init runs *)

(* how many hook entries of the event run the command *)
EntriesFor(event, command) ==
    IF home.settings.kind # "Object" THEN 0
    ELSE Cardinality({i \in 1..Len(home.settings[event]) :
                         contains(home.settings[event][i], command)})

(* the latest run is a further run after one that returned Ok *)
FurtherInit == initialised.after_success /\ initialised.result # "none"

NotOverwritten ==
    /\ initialised.config_before # "missing" => home.config_file = initialised.config_before
    /\ initialised.signals_before # "missing" => home.signals_file = initialised.signals_before

(* C29: after one successful init run, every further init run leaves
   settings.json with exactly one PreToolUse hook entry for
   "vigil-echo pulse" and exactly one SessionEnd hook entry for
   "vigil-echo collect --trigger session-end", and never overwrites an
   existing config.json or signals.json. *)
C29_InitIdempotent ==
    /\ FurtherInit =>
          /\ EntriesFor("PreToolUse", PULSE_COMMAND) = 1
          /\ EntriesFor("SessionEnd", COLLECT_COMMAND) = 1
    /\ initialised.result # "none" => NotOverwritten

====
